---- MODULE Spec2Model ----
(***************************************************************************)
(* Job-application endpoint of dentsaiyasart-afk/forcon.                   *)
(*                                                                         *)
(* The repository holds five iterations of the same Express handler:       *)
(*   part_000  src/unnamed/part_000       Helvetica, single column         *)
(*   part_001  src/unnamed/part_001       Sarabun (one font), single column*)
(*   index_1   src/api/index.js:1-959     regular+bold, two columns        *)
(*   index_2   src/api/index.js:961-1898  regular+bold, photo, two columns *)
(*   index_3   src/api/index.js:1900-2834 regular+bold, photo, two columns *)
(*                                                                         *)
(* A text value is the sequence of its UTF-16 code units, so "" is << >>   *)
(* and the JavaScript test !x is x = << >> (an absent form field, which    *)
(* arrives as undefined, is falsy in the same way).                        *)
(***************************************************************************)
EXTENDS Integers, Sequences, FiniteSets, TLC

VARIABLES
    variant,        \* which iteration of api/index.js the process runs
    thaiFont,       \* module-level cache: let thaiFont = null
    thaiFontBold,   \* module-level cache: let thaiFontBold = null
    now,            \* the value Date.now() returns
    req,            \* per request: position in the handler and its locals
    lay             \* one call of generateJobApplicationPDF: its input and document

vars == <<variant, thaiFont, thaiFontBold, now, req, lay>>

-----------------------------------------------------------------------------
(* Bounds of the model *)

MaxReq == 2         \* requests in flight in one process
MaxClock == 2       \* Date.now() ranges over 1..MaxClock
MaxDigits == 14     \* id_card inputs carry 0..MaxDigits digits
MaxLines == 2       \* doc.heightOfString returns 0..MaxLines lines of text
TextLine == 12      \* nominal height of one measured line, in points

-----------------------------------------------------------------------------
(* Text *)

X == <<120>>                         \* some non-empty text, "x"
Empty == << >>                       \* ""
Falsy(s) == s = << >>                \* !s
Truthy(s) == s # << >>
OrElse(s, d) == IF Truthy(s) THEN s ELSE d      \* s || d
Dash == <<45>>                       \* '-'
NoDisease == <<3652, 3617, 3656, 3617, 3637>>   \* the literal compared with has_disease

IsDigit(c) == c \in 48..57           \* \d
IsSpace(c) == c \in {9, 10, 11, 12, 13, 32, 160}    \* \s (the code units used here)

\* id_card.replace(/\D/g, '')
StripNonDigits(s) == SelectSeq(s, IsDigit)

\* [^\s@]+ over s[a..b]
PlainRun(s, a, b) ==
    /\ a <= b
    /\ \A k \in a..b : ~IsSpace(s[k]) /\ s[k] # 64

\* /^[^\s@]+@[^\s@]+\.[^\s@]+$/.test(s)
EmailRegexTest(s) ==
    \E i \in 1..Len(s) : \E j \in 1..Len(s) :
        /\ s[i] = 64
        /\ s[j] = 46
        /\ PlainRun(s, 1, i - 1)
        /\ PlainRun(s, i + 1, j - 1)
        /\ PlainRun(s, j + 1, Len(s))

-----------------------------------------------------------------------------
(* The five iterations *)

Variants == {"part_000", "part_001", "index_1", "index_2", "index_3"}

\* part_000 draws with the built-in Helvetica and downloads nothing
DownloadsFont(v) == v # "part_000"
\* the index.js iterations cache a regular and a bold font
CachesBold(v) == v \in {"index_1", "index_2", "index_3"}
\* index_2 and index_3 pass the photo to generateJobApplicationPDF
EmbedsPhoto(v) == v \in {"index_2", "index_3"}

-----------------------------------------------------------------------------
(* Validation messages, as code units *)

MsgRequiredLong ==
    <<3585, 3619, 3640, 3603, 3634, 3585, 3619, 3629, 3585, 3586, 3657, 3629,
      3617, 3641, 3621, 3607, 3637, 3656, 3592, 3635, 3648, 3611, 3655, 3609,
      3651, 3627, 3657, 3588, 3619, 3610, 3606, 3657, 3623, 3609>>
MsgRequiredShort ==
    <<3585, 3619, 3640, 3603, 3634, 3585, 3619, 3629, 3585, 3586, 3657, 3629,
      3617, 3641, 3621, 3651, 3627, 3657, 3588, 3619, 3610, 3606, 3657, 3623,
      3609>>
MsgIdCardLong ==
    <<3627, 3617, 3634, 3618, 3648, 3621, 3586, 3610, 3633, 3605, 3619, 3611,
      3619, 3632, 3594, 3634, 3594, 3609, 3605, 3657, 3629, 3591, 3648, 3611,
      3655, 3609, 3605, 3633, 3623, 3648, 3621, 3586, 32, 49, 51, 32, 3627,
      3621, 3633, 3585>>
MsgIdCardShort ==
    <<3648, 3621, 3586, 3610, 3633, 3605, 3619, 3611, 3619, 3632, 3594, 3634,
      3594, 3609, 3605, 3657, 3629, 3591, 3617, 3637, 32, 49, 51, 32, 3627,
      3621, 3633, 3585>>
MsgEmail ==
    <<3619, 3641, 3611, 3649, 3610, 3610, 3629, 3637, 3648, 3617, 3621, 3652,
      3617, 3656, 3606, 3641, 3585, 3605, 3657, 3629, 3591>>
MsgPhotoAttach ==
    <<3585, 3619, 3640, 3603, 3634, 3649, 3609, 3610, 3619, 3641, 3611, 3606,
      3656, 3634, 3618, 3627, 3609, 3657, 3634, 3605, 3619, 3591>>
MsgPhotoUpload2 ==
    <<3585, 3619, 3640, 3603, 3634, 3629, 3633, 3614, 3650, 3627, 3621, 3604,
      3619, 3641, 3611, 3606, 3656, 3634, 3618>>
MsgPhotoUpload3 ==
    <<3585, 3619, 3640, 3603, 3634, 3629, 3633, 3611, 3650, 3627, 3621, 3604,
      3619, 3641, 3611, 3606, 3656, 3634, 3618>>

\* one message for whatever check failed
SharedMessage(v, kind) ==
    CASE kind = "required" -> MsgRequiredLong
      [] kind = "id_card" -> MsgIdCardLong
      [] kind \in {"email", "photo"} -> MsgEmail

\* message of the 400 response for each failed check, per iteration
ValidationMessage(v, kind) ==
    CASE kind = "required" ->
            IF v = "index_3" THEN MsgRequiredShort ELSE MsgRequiredLong
      [] kind = "id_card" ->
            IF v \in {"index_2", "index_3"} THEN MsgIdCardShort ELSE MsgIdCardLong
      [] kind = "email" -> MsgEmail
      [] kind = "photo" ->
            IF v = "index_2" THEN MsgPhotoUpload2
            ELSE IF v = "index_3" THEN MsgPhotoUpload3
            ELSE MsgPhotoAttach

-----------------------------------------------------------------------------
(* The request body and the checks on it *)

RequiredFields ==
    {"position", "fullname_th", "gender", "birthdate", "age", "nationality",
     "ethnicity", "religion", "id_card", "phone", "line_id", "email",
     "education_used"}

\* if (!position || !fullname_th || ... || !education_used)
RequiredMissing(body) == \E f \in RequiredFields : Falsy(body[f])

\* the id_card as typed, separators included
RawIdCard(body) == body.id_card

\* const idCardDigits = id_card.replace(/\D/g, '')
idCardDigits(body) == StripNonDigits(body.id_card)

\* if (!req.files || !req.files.photo)
PhotoMissing(files) == ~files.present \/ ~files.photo

\* a handler that never looks at req.files
ValidateWithoutPhoto(body, files) ==
    IF RequiredMissing(body) THEN "required"
    ELSE IF Len(StripNonDigits(body.id_card)) # 13 THEN "id_card"
    ELSE IF ~EmailRegexTest(body.email) THEN "email"
    ELSE "ok"

\* the email tested before the national ID
ValidateEmailFirst(body, files) ==
    IF RequiredMissing(body) THEN "required"
    ELSE IF ~EmailRegexTest(body.email) THEN "email"
    ELSE IF Len(idCardDigits(body)) # 13 THEN "id_card"
    ELSE IF PhotoMissing(files) THEN "photo"
    ELSE "ok"

\* the four checks in the order the handler makes them; "ok" when all pass
Validate(body, files) ==
    IF RequiredMissing(body) THEN "required"
    ELSE IF Len(idCardDigits(body)) # 13 THEN "id_card"
    ELSE IF ~EmailRegexTest(body.email) THEN "email"
    ELSE IF PhotoMissing(files) THEN "photo"
    ELSE "ok"

-----------------------------------------------------------------------------
(* The application object the handler builds from a validated body *)

\* String(n) for a non-negative integer: its decimal digits
RECURSIVE Decimal(_)
Decimal(n) ==
    IF n < 10 THEN <<48 + n>> ELSE Decimal(n \div 10) \o <<48 + (n % 10)>>

\* `APP${Date.now()}`
ApplicationId(t) == <<65, 80, 80>> \o Decimal(t)

\* one slot of the work_experience array literal
WorkSlot(body, n) ==
    CASE n = 1 -> [company |-> body.work1_company, position |-> body.work1_position,
                   start |-> body.work1_start, end |-> body.work1_end,
                   reason |-> body.work1_reason]
      [] n = 2 -> [company |-> body.work2_company, position |-> body.work2_position,
                   start |-> body.work2_start, end |-> body.work2_end,
                   reason |-> body.work2_reason]
      [] n = 3 -> [company |-> body.work3_company, position |-> body.work3_position,
                   start |-> body.work3_start, end |-> body.work3_end,
                   reason |-> body.work3_reason]

HasCompany(w) == Truthy(w.company)

\* the three slots as submitted, with no filter
WorkExperienceUnfiltered(body) ==
    <<WorkSlot(body, 1), WorkSlot(body, 2), WorkSlot(body, 3)>>

\* [ {work1...}, {work2...}, {work3...} ].filter(w => w.company)
WorkExperience(body) ==
    SelectSeq(<<WorkSlot(body, 1), WorkSlot(body, 2), WorkSlot(body, 3)>>, HasCompany)

\* const application = { id: `APP${Date.now()}`, ... }
BuildApplication(body, t) ==
    [ id |-> ApplicationId(t),
      position |-> body.position,
      personal_info |->
        [ fullname_th |-> body.fullname_th,
          fullname_en |-> body.fullname_en,
          gender |-> body.gender,
          birthdate |-> body.birthdate,
          age |-> body.age,
          nationality |-> body.nationality,
          ethnicity |-> body.ethnicity,
          religion |-> body.religion,
          id_card |-> idCardDigits(body),
          phone |-> body.phone,
          line_id |-> body.line_id,
          email |-> body.email,
          address |-> [ full |-> body.address,
                        subdistrict |-> body.subdistrict,
                        district |-> body.district,
                        province |-> body.province,
                        zipcode |-> body.zipcode ] ],
      education |->
        [ high_school |-> [ school |-> body.edu_high_school,
                            major |-> body.edu_high_major,
                            year |-> body.edu_high_year ],
          vocational |-> [ school |-> body.edu_vocational,
                           major |-> body.edu_vocational_major,
                           year |-> body.edu_vocational_year ],
          bachelor |-> [ school |-> body.edu_bachelor,
                         major |-> body.edu_bachelor_major,
                         year |-> body.edu_bachelor_year ],
          other |-> [ school |-> body.edu_other,
                      major |-> body.edu_other_major,
                      year |-> body.edu_other_year ],
          education_used |-> body.education_used ],
      work_experience |-> WorkExperience(body),
      additional_info |->
        [ has_disease |-> body.has_disease,
          disease_detail |-> body.disease_detail,
          has_criminal_record |-> body.has_criminal_record,
          criminal_detail |-> body.criminal_detail,
          special_skills |-> body.special_skills,
          expected_salary |-> body.expected_salary,
          start_date |-> body.start_date,
          motivation |-> body.motivation ],
      status |-> "pending" ]

\* a body with every required field filled in and every optional one empty
BaseBody ==
    [ position |-> X, fullname_th |-> X, fullname_en |-> Empty, gender |-> X,
      birthdate |-> X, age |-> X, nationality |-> X, ethnicity |-> X,
      religion |-> X,
      id_card |-> <<49, 50, 51, 52, 53, 54, 55, 56, 57, 48, 49, 50, 51>>,
      phone |-> X, line_id |-> X,
      email |-> <<97, 64, 98, 46, 99>>,
      address |-> Empty, subdistrict |-> Empty, district |-> Empty,
      province |-> Empty, zipcode |-> Empty,
      edu_high_school |-> Empty, edu_high_major |-> Empty, edu_high_year |-> Empty,
      edu_vocational |-> Empty, edu_vocational_major |-> Empty,
      edu_vocational_year |-> Empty,
      edu_bachelor |-> Empty, edu_bachelor_major |-> Empty,
      edu_bachelor_year |-> Empty,
      edu_other |-> Empty, edu_other_major |-> Empty, edu_other_year |-> Empty,
      education_used |-> X,
      work1_company |-> Empty, work1_position |-> Empty, work1_start |-> Empty,
      work1_end |-> Empty, work1_reason |-> Empty,
      work2_company |-> Empty, work2_position |-> Empty, work2_start |-> Empty,
      work2_end |-> Empty, work2_reason |-> Empty,
      work3_company |-> Empty, work3_position |-> Empty, work3_start |-> Empty,
      work3_end |-> Empty, work3_reason |-> Empty,
      has_disease |-> Empty, disease_detail |-> Empty,
      has_criminal_record |-> Empty, criminal_detail |-> Empty,
      special_skills |-> Empty, expected_salary |-> Empty, start_date |-> Empty,
      motivation |-> Empty ]

-----------------------------------------------------------------------------
(* Rendering: what a PDFDocument records                                   *)
(*                                                                         *)
(* A document is the index of its current page, the list of draw calls     *)
(* made on it (each with the page it landed on and its y coordinate) and   *)
(* the layout cursors of the render.  `empty` records whether the value    *)
(* handed to the draw call's helper was empty or absent, `item` the index  *)
(* of the work-experience entry being drawn (0 outside the loop).          *)
(*                                                                         *)
(* The body of generateJobApplicationPDF is written down as the list of    *)
(* its statements, in source order, for the application at hand; Run       *)
(* executes the list on the document.  Only the page-break checks and one  *)
(* guard of index_1 read a cursor, so only they are decided during Run.    *)

Op(sec, kind, name, item, page, y, empty, cur, at) ==
    [sec |-> sec, kind |-> kind, name |-> name, item |-> item, page |-> page,
     y |-> y, empty |-> empty, cur |-> cur, at |-> at]

\* new PDFDocument(...): the first page exists, nothing is drawn
NewDocument ==
    [page |-> 1, ops |-> << >>, checks |-> << >>, item |-> 0,
     yPos |-> 0, leftY |-> 0, rightY |-> 0]

\* one draw call on the current page, n below the cursor (or at the fixed y n)
Draw(c, sec, kind, name, cur, n, empty) ==
    [c EXCEPT !.ops =
        Append(@, IF cur = "fixed"
                  THEN Op(sec, kind, name, c.item, c.page, n, empty, cur, n)
                  ELSE Op(sec, kind, name, c.item, c.page, c[cur] + n, empty,
                          cur, c[cur]))]

\* one evaluation of a page-break test: the cursor it read, the limit it was
\* compared with, the page before and after it, and the cursor after it
Checked(c, cur, limit, after) ==
    [after EXCEPT !.checks =
        Append(@, [cur |-> cur, at |-> c[cur], limit |-> limit,
                   from |-> c.page, to |-> after.page, top |-> after[cur]])]

\* a page-break test that also fires with the cursor on the limit
ReachesLimit(y, limit) == y >= limit

\* yPos > 650, yPos > 600, rightY > 700, rightY > 600
PastLimit(y, limit) == y > limit

\* a page break that resets the cursor without starting a page
addPageMissing(c) == c

\* doc.addPage()
addPage(c) == [c EXCEPT !.page = @ + 1]

Stmt(do, sec, kind, name, cur, n, to, empty, then) ==
    [do |-> do, sec |-> sec, kind |-> kind, name |-> name, cur |-> cur, n |-> n,
     to |-> to, empty |-> empty, then |-> then]

\* a draw call at cursor `cur` plus n
Text(sec, kind, name, cur, n, empty) ==
    <<Stmt("draw", sec, kind, name, cur, n, 0, empty, << >>)>>

\* a draw call at a fixed y
TextAt(sec, kind, name, y, empty) == Text(sec, kind, name, "fixed", y, empty)

\* cur += dy
Advance(cur, dy) == <<Stmt("advance", "", "", "", cur, dy, 0, FALSE, << >>)>>

\* let cur = y
Place(cur, y) == <<Stmt("place", "", "", "", cur, y, 0, FALSE, << >>)>>

\* let leftY = yPos, let rightY = yPos
FromYPos(cur) == <<Stmt("copy", "", "", "", cur, 0, 0, FALSE, << >>)>>

\* entering the forEach callback for the entry at `index`, and leaving it
Entry(index) == <<Stmt("item", "", "", "", "", index + 1, 0, FALSE, << >>)>>
EndEntry == <<Stmt("item", "", "", "", "", 0, 0, FALSE, << >>)>>

\* if (cur > limit) { doc.addPage(); cur = top; then }
BreakIfBelow(cur, limit, top, then) ==
    <<Stmt("break", "", "", "", cur, limit, top, FALSE, then)>>

\* if (cur < limit) { then }
IfAbove(cur, limit, then) == <<Stmt("guard", "", "", "", cur, limit, 0, FALSE, then)>>

RECURSIVE Run(_, _, _, _)

\* one statement
Exec(c, s) ==
    CASE s.do = "draw" -> Draw(c, s.sec, s.kind, s.name, s.cur, s.n, s.empty)
      [] s.do = "advance" -> [c EXCEPT ![s.cur] = @ + s.n]
      [] s.do = "place" -> [c EXCEPT ![s.cur] = s.n]
      [] s.do = "copy" -> [c EXCEPT ![s.cur] = c.yPos]
      [] s.do = "item" -> [c EXCEPT !.item = s.n]
      [] s.do = "break" ->
            IF PastLimit(c[s.cur], s.n)
            THEN Run(Checked(c, s.cur, s.n, [addPage(c) EXCEPT ![s.cur] = s.to]),
                     s.then, 1, Len(s.then))
            ELSE Checked(c, s.cur, s.n, c)
      [] s.do = "guard" ->
            IF c[s.cur] < s.n THEN Run(c, s.then, 1, Len(s.then)) ELSE c

\* statements lo..hi in order: the first half, then the second on its result
\* (the test on c.page has the document evaluated before the second half
\* starts, which keeps the evaluation shallow)
Run(c, stmts, lo, hi) ==
    IF lo > hi \/ c.page < 1 THEN c
    ELSE IF lo = hi THEN Exec(c, stmts[lo])
    ELSE Run(Run(c, stmts, lo, (lo + hi) \div 2), stmts, (lo + hi) \div 2 + 1, hi)

\* template strings such as `${a}, ${b}` are never empty
Joined(a, b) == a \o <<44, 32>> \o b

\* part_000 / part_001 addSectionHeader(doc, title, y): the title and its rule
addSectionHeader(sec, cur) == Text(sec, "title", sec, cur, 0, FALSE)

\* part_000 / part_001 addField(doc, label, value, y): the label, then value || '-'
addField(sec, name, value, cur) ==
    Text(sec, "label", name, cur, 0, Falsy(value))
        \o Text(sec, "value", name, cur, 0, Falsy(value))

\* part_001 addFieldBox(doc, label, value, y): box, label, then value || '-'
addFieldBox(sec, name, value, cur) ==
    Text(sec, "label", name, cur, 0, Falsy(value))
        \o Text(sec, "value", name, cur, 0, Falsy(value))

Row(name, value, dy) == [name |-> name, value |-> value, dy |-> dy]

\* if (cond) { addField(...); yPos += dy }
RowIf(cond, name, value, dy) == IF cond THEN <<Row(name, value, dy)>> ELSE << >>

\* addField(doc, label, value, yPos); yPos += dy   -- for each row in turn
RECURSIVE FieldRows(_, _)
FieldRows(sec, rows) ==
    IF rows = << >> THEN << >>
    ELSE addField(sec, Head(rows).name, Head(rows).value, "yPos")
            \o Advance("yPos", Head(rows).dy)
            \o FieldRows(sec, Tail(rows))

-----------------------------------------------------------------------------
(* The single-column layouts: part_000 and part_001                        *)

\* the increments and thresholds of part_000
Metrics000 ==
    [ top |-> 130, inset |-> 0, afterId |-> 30, headerDy |-> 25, positionDy |-> 20,
      rowDy |-> 20, locationDy |-> 30, eduDy |-> 20, eduUsedDy |-> 20, eduEndDy |-> 10,
      workTitleDy |-> 18, workRowDy |-> 20, workEndDy |-> 25, noWorkDy |-> 25,
      sectionBreak |-> 650, additionalBreak |-> 600, pageTop |-> 50,
      motivationDy |-> 15, footerY |-> 750 ]

\* the increments and thresholds of part_001 (footerY is doc.page.height - 50
\* on A4, 841.89 - 50, in whole points)
\* part_001 with its tests at yPos > 150
Metrics001TightBreak ==
    [ top |-> 130, inset |-> 5, afterId |-> 50, headerDy |-> 30, positionDy |-> 25,
      rowDy |-> 20, locationDy |-> 35, eduDy |-> 25, eduUsedDy |-> 25, eduEndDy |-> 10,
      workTitleDy |-> 25, workRowDy |-> 18, workEndDy |-> 30, noWorkDy |-> 30,
      sectionBreak |-> 150, additionalBreak |-> 150, pageTop |-> 50,
      motivationDy |-> 25, footerY |-> 791 ]

Metrics001 ==
    [ top |-> 130, inset |-> 5, afterId |-> 50, headerDy |-> 30, positionDy |-> 25,
      rowDy |-> 20, locationDy |-> 35, eduDy |-> 25, eduUsedDy |-> 25, eduEndDy |-> 10,
      workTitleDy |-> 25, workRowDy |-> 18, workEndDy |-> 30, noWorkDy |-> 30,
      sectionBreak |-> 650, additionalBreak |-> 600, pageTop |-> 50,
      motivationDy |-> 25, footerY |-> 791 ]

Metrics(v) == IF v = "part_000" THEN Metrics000 ELSE Metrics001

\* banner, application id and the Personal Information section, up to the
\* first page-break check
SinglePersonal(v, data) ==
    LET m == Metrics(v)
        p == data.personal_info
    IN  Place("yPos", m.top)
        \o TextAt("banner", "text", "banner", 30, FALSE)
        \o Text("banner", "text", "id", "yPos", m.inset, FALSE)
        \o Advance("yPos", m.afterId)
        \o addSectionHeader("personal", "yPos")
        \o Advance("yPos", m.headerDy)
        \o FieldRows("personal",
            <<Row("position", data.position, m.positionDy),
              Row("fullname_th", p.fullname_th, m.rowDy)>>
            \o RowIf(Truthy(p.fullname_en), "fullname_en", p.fullname_en, m.rowDy)
            \o <<Row("gender", p.gender, m.rowDy),
                 Row("birthdate", p.birthdate, 0)>>)
        \o Text("personal", "text", "age", "yPos", 0, FALSE)
        \o Advance("yPos", m.rowDy)
        \o FieldRows("personal",
            <<Row("nationality", p.nationality, m.rowDy),
              Row("ethnicity", p.ethnicity, m.rowDy),
              Row("religion", p.religion, m.rowDy),
              Row("id_card", p.id_card, m.rowDy),
              Row("phone", p.phone, m.rowDy),
              Row("line_id", p.line_id, m.rowDy),
              Row("email", p.email, m.rowDy),
              Row("address", p.address.full, m.rowDy),
              Row("location",
                  Joined(Joined(p.address.subdistrict, p.address.district),
                         p.address.province \o <<32>> \o p.address.zipcode),
                  m.locationDy)>>)
        \o BreakIfBelow("yPos", m.sectionBreak, m.pageTop, << >>)

\* `${school} (${major || '-'}) - ${year || '-'}`
SchoolLine(e) ==
    e.school \o <<32, 40>> \o OrElse(e.major, Dash) \o <<41, 32, 45, 32>>
             \o OrElse(e.year, Dash)

\* one education slot: part_000 uses addField, part_001 addFieldBox
SchoolRow(v, name, e) ==
    IF Truthy(e.school)
    THEN (IF v = "part_000"
          THEN addField("education", name, SchoolLine(e), "yPos")
          ELSE addFieldBox("education", name, SchoolLine(e), "yPos"))
         \o Advance("yPos", Metrics(v).eduDy)
    ELSE << >>

\* the Education section, up to the page-break check after it
SingleEducation(v, data) ==
    LET m == Metrics(v)
        e == data.education
    IN  addSectionHeader("education", "yPos")
        \o Advance("yPos", m.headerDy)
        \o SchoolRow(v, "high_school", e.high_school)
        \o SchoolRow(v, "vocational", e.vocational)
        \o SchoolRow(v, "bachelor", e.bachelor)
        \o SchoolRow(v, "other", e.other)
        \o FieldRows("education",
                     RowIf(Truthy(e.education_used), "education_used",
                           e.education_used, m.eduUsedDy))
        \o Advance("yPos", m.eduEndDy)
        \o BreakIfBelow("yPos", m.sectionBreak, m.pageTop, << >>)

\* `${work.start || '-'} to ${work.end || '-'}`
DurationLine(w) == OrElse(w.start, Dash) \o <<32, 116, 111, 32>> \o OrElse(w.end, Dash)

\* a loop body that compares the cursor with the threshold in the middle of
\* the entry, after its title
SingleWorkEntrySplit(v, work, index) ==
    LET m == Metrics(v)
    IN  Entry(index)
        \o Text("work", "record", "title", "yPos", m.inset, FALSE)
        \o Advance("yPos", m.workTitleDy)
        \o BreakIfBelow("yPos", m.sectionBreak, m.pageTop, << >>)
        \o FieldRows("work",
                <<Row("company", work.company, m.workRowDy),
                  Row("position", OrElse(work.position, Dash), m.workRowDy),
                  Row("duration", DurationLine(work), m.workRowDy),
                  Row("reason", OrElse(work.reason, Dash), m.workEndDy)>>)
        \o EndEntry

\* the body of data.work_experience.forEach((work, index) => ...): the entry is
\* drawn, and only then is the cursor compared with the threshold
SingleWorkEntry(v, work, index) ==
    LET m == Metrics(v)
    IN  Entry(index)
        \o Text("work", "record", "title", "yPos", m.inset, FALSE)
        \o Advance("yPos", m.workTitleDy)
        \o FieldRows("work",
                <<Row("company", work.company, m.workRowDy),
                  Row("position", OrElse(work.position, Dash), m.workRowDy),
                  Row("duration", DurationLine(work), m.workRowDy),
                  Row("reason", OrElse(work.reason, Dash), m.workEndDy)>>)
        \o EndEntry
        \o BreakIfBelow("yPos", m.sectionBreak, m.pageTop, << >>)

RECURSIVE SingleWorkLoop(_, _, _)
SingleWorkLoop(v, works, index) ==
    IF index >= Len(works) THEN << >>
    ELSE SingleWorkEntry(v, works[index + 1], index)
            \o SingleWorkLoop(v, works, index + 1)

\* the Work Experience header
SingleWorkHeader(v) ==
    addSectionHeader("work", "yPos") \o Advance("yPos", Metrics(v).headerDy)

\* the else branch: 'No work experience provided'
SingleNoWork(v) ==
    Text("work", "placeholder", "none", "yPos", 0, FALSE)
        \o Advance("yPos", Metrics(v).noWorkDy)

\* the Work Experience section
SingleWork(v, data) ==
    SingleWorkHeader(v)
        \o (IF Len(data.work_experience) > 0
            THEN SingleWorkLoop(v, data.work_experience, 0)
            ELSE SingleNoWork(v))

\* the Additional Information section, with its own page-break check first
\* an additional section that tests for a page and draws nothing
SingleAdditionalBare(v, data) ==
    BreakIfBelow("yPos", Metrics(v).additionalBreak, Metrics(v).pageTop, << >>)

SingleAdditional(v, data) ==
    LET m == Metrics(v)
        a == data.additional_info
    IN  BreakIfBelow("yPos", m.additionalBreak, m.pageTop, << >>)
        \o addSectionHeader("additional", "yPos")
        \o Advance("yPos", m.headerDy)
        \o FieldRows("additional",
            (IF Truthy(a.has_disease)
             THEN <<Row("has_disease", a.has_disease, m.rowDy)>>
                  \o RowIf(Truthy(a.disease_detail), "disease_detail",
                           a.disease_detail, m.rowDy)
             ELSE << >>)
            \o (IF Truthy(a.has_criminal_record)
                THEN <<Row("has_criminal_record", a.has_criminal_record, m.rowDy)>>
                     \o RowIf(Truthy(a.criminal_detail), "criminal_detail",
                              a.criminal_detail, m.rowDy)
                ELSE << >>)
            \o RowIf(Truthy(a.special_skills), "special_skills", a.special_skills, m.rowDy)
            \o RowIf(Truthy(a.expected_salary), "expected_salary",
                     a.expected_salary \o <<32, 84, 72, 66>>, m.rowDy)
            \o RowIf(Truthy(a.start_date), "start_date", a.start_date, m.rowDy))
        \o (IF Truthy(a.motivation)
            THEN Text("motivation", "label", "motivation", "yPos", m.inset, FALSE)
                 \o Advance("yPos", m.motivationDy)
                 \o Text("motivation", "value", "motivation", "yPos", 0, FALSE)
            ELSE << >>)

\* the footer: drawn once, on the page that is current when layout ends
SingleFooter(v) == TextAt("footer", "footer", "footer", Metrics(v).footerY, FALSE)

\* the statements of part_000 / part_001 for one application
SingleColumnLayout(v, data) ==
    SinglePersonal(v, data) \o SingleEducation(v, data) \o SingleWork(v, data)
        \o SingleAdditional(v, data) \o SingleFooter(v)

-----------------------------------------------------------------------------
(* The first two-column layout: index_1 (src/api/index.js:107-570)         *)

\* drawInfoCard(doc, x, y, width, height, title, items, color): the title,
\* then every item that is not empty, 13 points apart from y + 28
RECURSIVE CardItems(_, _, _)
CardItems(name, items, itemY) ==
    IF items = << >> THEN << >>
    ELSE IF Truthy(Head(items))
         THEN Text("personal", "value", name, "yPos", itemY, FALSE)
                \o CardItems(name, Tail(items), itemY + 13)
         ELSE CardItems(name, Tail(items), itemY)

drawInfoCard(name, items) ==
    Text("personal", "title", name, "yPos", 10, FALSE) \o CardItems(name, items, 28)

\* addSectionTitle(doc, title, x, y, color)
addSectionTitle(sec, cur) == Text(sec, "title", sec, cur, 1, FALSE)

\* addEducationItem(doc, x, y, width, level, school, major, year)
addEducationItem(name, e, cur) ==
    Text("education", "label", name, cur, 4, FALSE)
        \o Text("education", "value", name, cur, 23, Falsy(e.school))
        \o (IF Truthy(e.major) \/ Truthy(e.year)
            THEN Text("education", "value", name, cur, 37, FALSE)
            ELSE << >>)

\* addDetailItem(doc, x, y, label, value, width)
addDetailItem(name, value, cur) ==
    Text("additional", "label", name, cur, 0, Falsy(value))
        \o Text("additional", "value", name, cur, 0, Falsy(value))

\* header, the three info cards, and the cursor the two columns start from
Index1Header(data) ==
    LET p == data.personal_info
    IN  TextAt("banner", "text", "position", 45, Falsy(data.position))
        \o TextAt("banner", "text", "fullname_th", 95, Falsy(p.fullname_th))
        \o (IF Truthy(p.fullname_en)
            THEN TextAt("banner", "text", "fullname_en", 125, FALSE)
            ELSE << >>)
        \o TextAt("banner", "text", "id", 157, FALSE)
        \o Place("yPos", 210)
        \o drawInfoCard("contact", <<p.phone, p.line_id, p.email>>)
        \o drawInfoCard("details",
                        <<p.gender \o <<32, 8226, 32>> \o p.age, p.nationality,
                          p.religion>>)
        \o drawInfoCard("education_card",
                        <<data.education.education_used, <<58>> \o p.id_card, Empty>>)
        \o Advance("yPos", 75 + 35)

\* an education item that takes 105 instead of 45
Index1EducationItemTall(name, e) ==
    IF Truthy(e.school)
    THEN addEducationItem(name, e, "leftY") \o Advance("leftY", 105)
    ELSE << >>

Index1EducationItem(name, e) ==
    IF Truthy(e.school)
    THEN addEducationItem(name, e, "leftY") \o Advance("leftY", 45)
    ELSE << >>

Index1DetailIf(cond, name, value) ==
    IF cond THEN addDetailItem(name, value, "leftY") \o Advance("leftY", 22) ELSE << >>

\* the left column: address, education history, additional info
Index1Left(data) ==
    LET p == data.personal_info
        e == data.education
        a == data.additional_info
    IN  FromYPos("leftY")
        \o addSectionTitle("address", "leftY")
        \o Advance("leftY", 25)
        \o Text("address", "value", "address", "leftY", 0, Falsy(p.address.full))
        \o Advance("leftY", 22)
        \o Text("address", "value", "district", "leftY", 0, FALSE)
        \o Advance("leftY", 15)
        \o Text("address", "value", "province", "leftY", 0, FALSE)
        \o Advance("leftY", 35)
        \o addSectionTitle("education", "leftY")
        \o Advance("leftY", 30)
        \o Index1EducationItem("high_school", e.high_school)
        \o Index1EducationItem("vocational", e.vocational)
        \o Index1EducationItem("bachelor", e.bachelor)
        \o Index1EducationItem("other", e.other)
        \o IfAbove("leftY", 650,
                addSectionTitle("additional", "leftY")
                \o Advance("leftY", 25)
                \o Index1DetailIf(Truthy(a.special_skills), "special_skills",
                                  a.special_skills)
                \o Index1DetailIf(Truthy(a.expected_salary), "expected_salary",
                                  a.expected_salary \o X)
                \o Index1DetailIf(Truthy(a.start_date), "start_date", a.start_date)
                \o Index1DetailIf(Truthy(a.has_disease) /\ a.has_disease # NoDisease,
                                  "has_disease",
                                  OrElse(a.disease_detail, a.has_disease)))

\* the body of the work loop of index_1: the entry is drawn, then the cursor
\* is compared with 700, and no break follows the last entry
Index1WorkEntry(work, index, length) ==
    Entry(index)
        \o Text("work", "record", "position", "rightY", 0, FALSE)
        \o Advance("rightY", 17)
        \o Text("work", "value", "company", "rightY", 0, Falsy(work.company))
        \o Advance("rightY", 16)
        \o Text("work", "value", "duration", "rightY", 0, FALSE)
        \o Advance("rightY", 14)
        \o (IF Truthy(work.reason)
            THEN Text("work", "value", "reason", "rightY", 0, FALSE)
                 \o Advance("rightY", 14)
            ELSE << >>)
        \o Advance("rightY", 20)
        \o EndEntry
        \o (IF index < length - 1
            THEN BreakIfBelow("rightY", 700, 60,
                              addSectionTitle("work", "rightY") \o Advance("rightY", 30))
            ELSE << >>)

RECURSIVE Index1WorkLoop(_, _)
Index1WorkLoop(works, index) ==
    IF index >= Len(works) THEN << >>
    ELSE Index1WorkEntry(works[index + 1], index, Len(works))
            \o Index1WorkLoop(works, index + 1)

\* a right column whose section title takes 130 instead of 30
Index1WorkTallTitle(data) ==
    FromYPos("rightY")
        \o addSectionTitle("work", "rightY")
        \o Advance("rightY", 130)
        \o (IF Len(data.work_experience) > 0
            THEN Index1WorkLoop(data.work_experience, 0)
            ELSE Text("work", "placeholder", "none", "rightY", 0, FALSE)
                 \o Advance("rightY", 30))

\* the right column up to the end of the work section
Index1Work(data) ==
    FromYPos("rightY")
        \o addSectionTitle("work", "rightY")
        \o Advance("rightY", 30)
        \o (IF Len(data.work_experience) > 0
            THEN Index1WorkLoop(data.work_experience, 0)
            ELSE Text("work", "placeholder", "none", "rightY", 0, FALSE)
                 \o Advance("rightY", 30))

\* the motivation block of the right column
Index1Motivation(data) ==
    IF Truthy(data.additional_info.motivation)
    THEN BreakIfBelow("rightY", 600, 60, << >>)
         \o addSectionTitle("motivation", "rightY")
         \o Advance("rightY", 25)
         \o Text("motivation", "value", "motivation", "rightY", 5, FALSE)
    ELSE << >>

\* the footer (footerY is doc.page.height - 40 on A4, in whole points):
\* drawn once, on the page that is current when layout ends
Index1Footer == TextAt("footer", "footer", "footer", 801, FALSE)

\* the statements of index_1 for one application
Index1Layout(data) ==
    Index1Header(data) \o Index1Left(data) \o Index1Work(data)
        \o Index1Motivation(data) \o Index1Footer

-----------------------------------------------------------------------------
(* What a render takes from the PDF library besides the application:       *)
(* whether doc.image can decode the photo, and the heights that            *)
(* doc.heightOfString returns at each of its call sites.                   *)

TextHeights == {k * TextLine : k \in 0..MaxLines}

RenderEnv(decodes, hAddress, hSkills, hDisease, hReason) ==
    [ photoDecodes |-> decodes,
      height |-> [address |-> hAddress, skills |-> hSkills, disease |-> hDisease,
                  reason |-> hReason] ]

\* every call site measures the same height h
UniformEnv(decodes, h) == RenderEnv(decodes, h, h, h, <<h, h, h>>)

-----------------------------------------------------------------------------
(* The second two-column layout: index_2 (src/api/index.js:1067-1505)      *)

\* addModernSectionTitle(doc, title, x, y)
addModernSectionTitle(sec, cur) == Text(sec, "title", sec, cur, 0, FALSE)

\* addCompactEducationItem(doc, x, y, width, level, school, major, year)
addCompactEducationItem(name, e, cur) ==
    Text("education", "label", name, cur, 4, FALSE)
        \o Text("education", "value", name, cur, 23, Falsy(e.school))
        \o (IF Truthy(e.major) \/ Truthy(e.year)
            THEN Text("education", "value", name, cur, 36, FALSE)
            ELSE << >>)

\* addCompactDetailRow(doc, x, y, label, value, width)
addCompactDetailRow(name, value, cur) ==
    Text("additional", "label", name, cur, 0, Falsy(value))
        \o Text("additional", "value", name, cur, 0, Falsy(value))

\* if (photoBuffer) { try { frame; doc.image(...) } catch { log } }
Index2Photo(hasPhoto, env) ==
    IF hasPhoto
    THEN TextAt("photo", "frame", "photo", 20, FALSE)
         \o (IF env.photoDecodes
             THEN TextAt("photo", "image", "photo", 25, FALSE)
             ELSE << >>)
    ELSE << >>

\* header, photo and the four lines of compact personal information
Index2Header(data, hasPhoto, env) ==
    LET p == data.personal_info
    IN  TextAt("banner", "text", "position", 30, Falsy(data.position))
        \o TextAt("banner", "text", "id", 68, FALSE)
        \o TextAt("banner", "text", "fullname_th", 90, Falsy(p.fullname_th))
        \o (IF Truthy(p.fullname_en)
            THEN TextAt("banner", "text", "fullname_en", 115, FALSE)
            ELSE << >>)
        \o Index2Photo(hasPhoto, env)
        \o Place("yPos", 170)
        \o Text("personal", "value", "contact", "yPos", 0, FALSE)
        \o Advance("yPos", 18)
        \o Text("personal", "value", "line_gender_age", "yPos", 0, FALSE)
        \o Advance("yPos", 18)
        \o Text("personal", "value", "nationality", "yPos", 0, FALSE)
        \o Advance("yPos", 18)
        \o Text("personal", "value", "id_card", "yPos", 0, FALSE)
        \o Advance("yPos", 25)

Index2EducationItem(name, e) ==
    IF Truthy(e.school)
    THEN addCompactEducationItem(name, e, "leftY") \o Advance("leftY", 38)
    ELSE << >>

Index2DetailIf(cond, name, value) ==
    IF cond THEN addCompactDetailRow(name, value, "leftY") \o Advance("leftY", 18)
    ELSE << >>

\* the left column: address, education history, additional info
Index2Left(data, env) ==
    LET p == data.personal_info
        e == data.education
        a == data.additional_info
    IN  FromYPos("leftY")
        \o addModernSectionTitle("address", "leftY")
        \o Advance("leftY", 22)
        \o Text("address", "value", "address", "leftY", 0, Falsy(p.address.full))
        \o Advance("leftY", env.height.address + 5)
        \o Text("address", "value", "district", "leftY", 0, FALSE)
        \o Advance("leftY", 15)
        \o Text("address", "value", "province", "leftY", 0, FALSE)
        \o Advance("leftY", 28)
        \o addModernSectionTitle("education", "leftY")
        \o Advance("leftY", 22)
        \o Text("education", "value", "education_used", "leftY", 0, FALSE)
        \o Advance("leftY", 20)
        \o Index2EducationItem("high_school", e.high_school)
        \o Index2EducationItem("vocational", e.vocational)
        \o Index2EducationItem("bachelor", e.bachelor)
        \o Index2EducationItem("other", e.other)
        \o Advance("leftY", 10)
        \o addModernSectionTitle("additional", "leftY")
        \o Advance("leftY", 22)
        \o Index2DetailIf(Truthy(a.special_skills), "special_skills", a.special_skills)
        \o Index2DetailIf(Truthy(a.expected_salary), "expected_salary",
                          a.expected_salary \o X)
        \o Index2DetailIf(Truthy(a.start_date), "start_date", a.start_date)
        \o Index2DetailIf(Truthy(a.has_disease), "has_disease",
                          OrElse(a.disease_detail, a.has_disease))
        \o Index2DetailIf(Truthy(a.has_criminal_record), "has_criminal_record",
                          OrElse(a.criminal_detail, a.has_criminal_record))

\* the body of the work loop of index_2: no page-break check at all
Index2WorkEntry(work, index) ==
    Entry(index)
        \o Text("work", "record", "position", "rightY", 0, FALSE)
        \o Advance("rightY", 18)
        \o Text("work", "value", "company", "rightY", 0, Falsy(work.company))
        \o Advance("rightY", 16)
        \o Text("work", "value", "duration", "rightY", 0, FALSE)
        \o Advance("rightY", 14)
        \o (IF Truthy(work.reason)
            THEN Text("work", "value", "reason", "rightY", 0, FALSE)
                 \o Advance("rightY", 14)
            ELSE << >>)
        \o Advance("rightY", 16)
        \o EndEntry

RECURSIVE Index2WorkLoop(_, _)
Index2WorkLoop(works, index) ==
    IF index >= Len(works) THEN << >>
    ELSE Index2WorkEntry(works[index + 1], index) \o Index2WorkLoop(works, index + 1)

\* the right column up to the end of the work section
Index2Work(data) ==
    FromYPos("rightY")
        \o addModernSectionTitle("work", "rightY")
        \o Advance("rightY", 22)
        \o (IF Len(data.work_experience) > 0
            THEN Index2WorkLoop(data.work_experience, 0)
            ELSE Text("work", "placeholder", "none", "rightY", 0, FALSE)
                 \o Advance("rightY", 25))

\* the motivation block of the right column
Index2Motivation(data) ==
    IF Truthy(data.additional_info.motivation)
    THEN Advance("rightY", 10)
         \o addModernSectionTitle("motivation", "rightY")
         \o Advance("rightY", 22)
         \o Text("motivation", "value", "motivation", "rightY", 12, FALSE)
    ELSE << >>

\* the footer (footerY + 5 with footerY = pageHeight - 45 on A4, whole points)
Index2Footer == TextAt("footer", "footer", "footer", 801, FALSE)

\* the statements of index_2 for one application
Index2Layout(data, hasPhoto, env) ==
    Index2Header(data, hasPhoto, env) \o Index2Left(data, env) \o Index2Work(data)
        \o Index2Motivation(data) \o Index2Footer

-----------------------------------------------------------------------------
(* The third two-column layout: index_3 (src/api/index.js:2006-2445)       *)

\* if (photoBuffer) { try { doc.image(...) } catch { log } }
Index3Photo(hasPhoto, env) ==
    IF hasPhoto /\ env.photoDecodes
    THEN Text("photo", "image", "photo", "yPos", 0, FALSE)
    ELSE << >>

\* one of the three quick-info columns: a title and the lines under it
Index3InfoColumn(name, count) ==
    Text("personal", "title", name, "yPos", 0, FALSE)
        \o Text("personal", "value", name, "yPos", 15, FALSE)
        \o Text("personal", "value", name, "yPos", 15 + 13, FALSE)
        \o (IF count = 3
            THEN Text("personal", "value", name, "yPos", 15 + 13 + 13, FALSE)
            ELSE << >>)

\* header with photo, then the quick-info section
Index3Header(data, hasPhoto, env) ==
    LET p == data.personal_info
    IN  Place("yPos", 30)
        \o Index3Photo(hasPhoto, env)
        \o Text("banner", "text", "position", "yPos", 0, Falsy(data.position))
        \o Advance("yPos", 30)
        \o Text("banner", "text", "fullname_th", "yPos", 0, Falsy(p.fullname_th))
        \o Advance("yPos", 20)
        \o (IF Truthy(p.fullname_en)
            THEN Text("banner", "text", "fullname_en", "yPos", 0, FALSE)
                 \o Advance("yPos", 18)
            ELSE << >>)
        \o Text("banner", "text", "id", "yPos", 0, FALSE)
        \o Advance("yPos", 25)
        \o Advance("yPos", 20)
        \o Index3InfoColumn("contact", 3)
        \o Index3InfoColumn("details", 3)
        \o Index3InfoColumn("education_card", 2)
        \o Advance("yPos", 60)
        \o Advance("yPos", 20)

\* one education slot: level, school, then major and year when either is given
Index3EducationItem(name, e) ==
    IF Truthy(e.school)
    THEN Text("education", "label", name, "leftY", 0, FALSE)
         \o Advance("leftY", 14)
         \o Text("education", "value", name, "leftY", 0, Falsy(e.school))
         \o Advance("leftY", 12)
         \o (IF Truthy(e.major) \/ Truthy(e.year)
             THEN Text("education", "value", name, "leftY", 0, FALSE)
                  \o Advance("leftY", 12)
             ELSE << >>)
         \o Advance("leftY", 8)
    ELSE << >>

\* if (cond) { doc.text(...); leftY += dy }
Index3DetailIf(cond, name, dy) ==
    IF cond
    THEN Text("additional", "value", name, "leftY", 0, FALSE) \o Advance("leftY", dy)
    ELSE << >>

\* the left column: address, education history, additional info
Index3Left(data, env) ==
    LET p == data.personal_info
        e == data.education
        a == data.additional_info
    IN  FromYPos("leftY")
        \o Text("address", "title", "address", "leftY", 0, FALSE)
        \o Advance("leftY", 18)
        \o Text("address", "value", "address", "leftY", 0, Falsy(p.address.full))
        \o Advance("leftY", env.height.address + 5)
        \o Text("address", "value", "district", "leftY", 0, FALSE)
        \o Advance("leftY", 12)
        \o Text("address", "value", "province", "leftY", 0, FALSE)
        \o Advance("leftY", 25)
        \o Text("education", "title", "education", "leftY", 0, FALSE)
        \o Advance("leftY", 18)
        \o Index3EducationItem("high_school", e.high_school)
        \o Index3EducationItem("vocational", e.vocational)
        \o Index3EducationItem("bachelor", e.bachelor)
        \o Index3EducationItem("other", e.other)
        \o Advance("leftY", 10)
        \o Text("additional", "title", "additional", "leftY", 0, FALSE)
        \o Advance("leftY", 18)
        \o Index3DetailIf(Truthy(a.special_skills), "special_skills",
                          env.height.skills + 8)
        \o Index3DetailIf(Truthy(a.expected_salary), "expected_salary", 13)
        \o Index3DetailIf(Truthy(a.start_date), "start_date", 13)
        \o Index3DetailIf(Truthy(a.has_disease) /\ a.has_disease # NoDisease,
                          "has_disease", env.height.disease + 8)

\* the body of the work loop of index_3: no page-break check at all
Index3WorkEntry(work, index, env) ==
    Entry(index)
        \o Text("work", "record", "position", "rightY", 0, FALSE)
        \o Advance("rightY", 14)
        \o Text("work", "value", "company", "rightY", 0, Falsy(work.company))
        \o Advance("rightY", 12)
        \o Text("work", "value", "duration", "rightY", 0, FALSE)
        \o Advance("rightY", 12)
        \o (IF Truthy(work.reason)
            THEN Text("work", "value", "reason", "rightY", 0, FALSE)
                 \o Advance("rightY", env.height.reason[index + 1] + 3)
            ELSE << >>)
        \o Advance("rightY", 12)
        \o EndEntry

RECURSIVE Index3WorkLoop(_, _, _)
Index3WorkLoop(works, index, env) ==
    IF index >= Len(works) THEN << >>
    ELSE Index3WorkEntry(works[index + 1], index, env)
            \o Index3WorkLoop(works, index + 1, env)

\* the right column up to the end of the work section
Index3Work(data, env) ==
    FromYPos("rightY")
        \o Text("work", "title", "work", "rightY", 0, FALSE)
        \o Advance("rightY", 18)
        \o (IF Len(data.work_experience) > 0
            THEN Index3WorkLoop(data.work_experience, 0, env)
            ELSE Text("work", "placeholder", "none", "rightY", 0, FALSE)
                 \o Advance("rightY", 25))
        \o Advance("rightY", 10)

\* the motivation block of the right column
Index3Motivation(data) ==
    IF Truthy(data.additional_info.motivation)
    THEN Text("motivation", "title", "motivation", "rightY", 0, FALSE)
         \o Advance("rightY", 18)
         \o Text("motivation", "value", "motivation", "rightY", 0, FALSE)
    ELSE << >>

\* the footer (footerY + 10 with footerY = pageHeight - 50 on A4, whole points)
Index3Footer == TextAt("footer", "footer", "footer", 801, FALSE)

\* the statements of index_3 for one application
Index3Layout(data, hasPhoto, env) ==
    Index3Header(data, hasPhoto, env) \o Index3Left(data, env)
        \o Index3Work(data, env) \o Index3Motivation(data) \o Index3Footer

-----------------------------------------------------------------------------
(* generateJobApplicationPDF, from new PDFDocument to doc.end()            *)

\* a layout whose photo has no try/catch of its own: when doc.image throws,
\* the statements stop there
StatementsPhotoFatal(v, data, hasPhoto, env) ==
    CASE v \in {"part_000", "part_001"} -> SingleColumnLayout(v, data)
      [] v = "index_1" -> Index1Layout(data)
      [] v = "index_2" ->
            IF hasPhoto /\ ~env.photoDecodes
            THEN SubSeq(Index2Layout(data, hasPhoto, env), 1, 3)
            ELSE Index2Layout(data, hasPhoto, env)
      [] v = "index_3" ->
            IF hasPhoto /\ ~env.photoDecodes
            THEN SubSeq(Index3Layout(data, hasPhoto, env), 1, 3)
            ELSE Index3Layout(data, hasPhoto, env)

\* the statements the variant executes for this application
Statements(v, data, hasPhoto, env) ==
    CASE v \in {"part_000", "part_001"} -> SingleColumnLayout(v, data)
      [] v = "index_1" -> Index1Layout(data)
      [] v = "index_2" -> Index2Layout(data, hasPhoto, env)
      [] v = "index_3" -> Index3Layout(data, hasPhoto, env)

\* the document after doc.end()
Layout(v, data, hasPhoto, env) ==
    Run(NewDocument, Statements(v, data, hasPhoto, env), 1,
        Len(Statements(v, data, hasPhoto, env)))

-----------------------------------------------------------------------------
(* Responses *)

MsgSuccessSpaced ==
    <<3626, 3656, 3591, 3651, 3610, 3626, 3617, 3633, 3588, 3619, 3591,
      3634, 3609, 3626, 3635, 3648, 3619, 3655, 3592, 33, 32, 3648, 3619,
      3634, 3592, 3632, 3605, 3636, 3604, 3605, 3656, 3629, 3585, 3621,
      3633, 3610, 32, 3616, 3634, 3618, 3651, 3609, 32, 55, 32, 3623, 3633,
      3609, 3607, 3635, 3585, 3634, 3619>>
MsgSuccessCheckMail ==
    <<3626, 3656, 3591, 3651, 3610, 3626, 3617, 3633, 3588, 3619, 3591,
      3634, 3609, 3626, 3635, 3648, 3619, 3655, 3592, 33, 32, 3585, 3619,
      3640, 3603, 3634, 3605, 3619, 3623, 3592, 3626, 3629, 3610, 3629,
      3637, 3648, 3617, 3621, 3586, 3629, 3591, 3588, 3640, 3603, 3616,
      3634, 3618, 3651, 3609, 32, 55, 32, 3623, 3633, 3609, 3607, 3635,
      3585, 3634, 3619>>
MsgSuccessPlain ==
    <<3626, 3656, 3591, 3651, 3610, 3626, 3617, 3633, 3588, 3619, 3591,
      3634, 3609, 3626, 3635, 3648, 3619, 3655, 3592, 33, 32, 3648, 3619,
      3634, 3592, 3632, 3605, 3636, 3604, 3605, 3656, 3629, 3585, 3621,
      3633, 3610, 3616, 3634, 3618, 3651, 3609, 32, 55, 32, 3623, 3633,
      3609, 3607, 3635, 3585, 3634, 3619>>
MsgFailureRetry ==
    <<3648, 3585, 3636, 3604, 3586, 3657, 3629, 3612, 3636, 3604, 3614,
      3621, 3634, 3604, 32, 3585, 3619, 3640, 3603, 3634, 3621, 3629, 3591,
      3651, 3627, 3617, 3656, 3629, 3637, 3585, 3588, 3619, 3633, 3657,
      3591>>
MsgFailureSubmitRetry ==
    <<3648, 3585, 3636, 3604, 3586, 3657, 3629, 3612, 3636, 3604, 3614,
      3621, 3634, 3604, 3651, 3609, 3585, 3634, 3619, 3626, 3656, 3591,
      3651, 3610, 3626, 3617, 3633, 3588, 3619, 32, 3585, 3619, 3640, 3603,
      3634, 3621, 3629, 3591, 3651, 3627, 3617, 3656, 3629, 3637, 3585,
      3588, 3619, 3633, 3657, 3591>>
MsgFailureSubmit ==
    <<3648, 3585, 3636, 3604, 3586, 3657, 3629, 3612, 3636, 3604, 3614,
      3621, 3634, 3604, 3651, 3609, 3585, 3634, 3619, 3626, 3656, 3591,
      3651, 3610, 3626, 3617, 3633, 3588, 3619>>

\* process.env.ADMIN_EMAIL || 'forcon674@outlook.com'
AdminEmailDefault ==
    <<102, 111, 114, 99, 111, 110, 54, 55, 52, 64, 111, 117, 116, 108, 111,
      111, 107, 46, 99, 111, 109>>

SuccessMessage(v) ==
    CASE v \in {"part_001", "index_1"} -> MsgSuccessSpaced
      [] v = "index_2" -> MsgSuccessCheckMail
      [] v \in {"part_000", "index_3"} -> MsgSuccessPlain

FailureMessage(v) ==
    CASE v \in {"part_000", "part_001", "index_1"} -> MsgFailureRetry
      [] v = "index_2" -> MsgFailureSubmitRetry
      [] v = "index_3" -> MsgFailureSubmit

Response(status, success, message, id) ==
    [status |-> status, success |-> success, message |-> message,
     application_id |-> id]

\* return res.status(400).json({ success: false, message: ... })
Response400(v, kind) == Response(400, FALSE, ValidationMessage(v, kind), << >>)

\* res.json({ success: true, message: ..., application_id: application.id })
Response200(v, application) == Response(200, TRUE, SuccessMessage(v), application.id)

\* catch (error) { res.status(500).json({ success: false, message: ... }) }
Response500(v) == Response(500, FALSE, FailureMessage(v), << >>)

-----------------------------------------------------------------------------
(* The font cache: downloadThaiFont                                        *)
(*                                                                         *)
(* A font buffer is named by the download that produced it; "none" is the  *)
(* null the module-level variables start with.                             *)

\* a downloadThaiFont without its first line
CacheIgnored(regular) == FALSE

\* if (thaiFont) return ...
CacheHit(regular) == regular # "none"

\* return { regular: thaiFont, bold: thaiFontBold }  (part_001: return thaiFont)
FontsReturned(v, regular, bold) ==
    [regular |-> regular, bold |-> IF CachesBold(v) THEN bold ELSE "none"]

\* the bold download settles: thaiFontBold = Buffer.from(...) or, in the inner
\* catch, thaiFontBold = thaiFont
\* a catch (boldError) that only logs
BoldLeftUnset(ok, regular) == IF ok THEN "bold" ELSE "none"

BoldAfterDownload(ok, regular) == IF ok THEN "bold" ELSE regular

\* the fallback download settles in a variant without a bold branch of its
\* own: thaiFontBold = thaiFont, or in part_001 the variable does not exist
BoldAfterFallback(v, bold) == IF CachesBold(v) THEN "fallback" ELSE bold

-----------------------------------------------------------------------------
(* sendEmail *)

\* a sendEmail without its try/catch: the transport's error reaches the caller
sendEmailUncaught(delivered) == [threw |-> ~delivered, value |-> delivered]

\* try { await transporter.sendMail(...); return true } catch { return false }
sendEmail(delivered) == [threw |-> FALSE, value |-> delivered]

\* an attachments array that never gets past the PDF
AttachmentsPdfOnly(files) == <<"pdf">>

\* the attachments array: the PDF, the photo, and the resume if one came
Attachments(files) ==
    <<"pdf">> \o (IF files.photo THEN <<"photo">> ELSE << >>)
              \o (IF files.resume THEN <<"resume">> ELSE << >>)

Mail(role, to, attachments) ==
    [role |-> role, to |-> to, attachments |-> attachments, result |-> "pending"]

\* the send in flight settles
Settle(mails, delivered) ==
    [mails EXCEPT ![Len(mails)].result = IF delivered THEN "sent" ELSE "failed"]

-----------------------------------------------------------------------------
(* One request in the handler *)

Idle ==
    [pc |-> "idle", sub |-> << >>, app |-> << >>, fonts |-> << >>, doc |-> << >>,
     pdf |-> FALSE, net |-> << >>, mails |-> << >>, res |-> << >>]

IdleLayout == [pc |-> "idle", input |-> << >>, doc |-> << >>]

Get(url) == [url |-> url, result |-> "pending"]

\* the axios.get in flight settles
Settled(net, ok) == [net EXCEPT ![Len(net)].result = IF ok THEN "ok" ELSE "failed"]

\* a handler that answers and then answers again
RespondTwice(q, response) ==
    [q EXCEPT !.pc = "done", !.res = Append(Append(@, response), response)]

\* a response is written and the handler returns
Respond(q, response) == [q EXCEPT !.pc = "done", !.res = Append(@, response)]

Requests == 1..MaxReq

\* a render that measures nothing and embeds nothing (part_000, part_001, index_1)
PlainEnv == UniformEnv(TRUE, 0)

Init ==
    /\ variant \in Variants
    /\ thaiFont = "none"
    /\ thaiFontBold = "none"
    /\ now = 1
    /\ req = [r \in Requests |-> Idle]
    /\ lay = IdleLayout

\* Date.now() moves on
Tick ==
    /\ now < MaxClock
    /\ now' = now + 1
    /\ UNCHANGED <<variant, thaiFont, thaiFontBold, req, lay>>

\* The synchronous start of the handler: validation, the application object,
\* and generateJobApplicationPDF up to its first await.  Requests are numbered
\* in the order they arrive.
Receive(r, sub) ==
    /\ req[r].pc = "idle"
    /\ \A k \in 1..(r - 1) : req[k].pc # "idle"
    /\ LET q0 == [req[r] EXCEPT !.sub = <<sub>>]
           kind == Validate(sub.body, sub.files)
           q1 == [q0 EXCEPT !.app = <<BuildApplication(sub.body, now)>>]
       IN  req' = [req EXCEPT ![r] =
                IF kind # "ok"
                THEN Respond(q0, Response400(variant, kind))
                ELSE IF ~DownloadsFont(variant)
                THEN [q1 EXCEPT !.doc = <<Layout(variant, q1.app[1], TRUE, PlainEnv)>>,
                                !.pc = "pdf_end"]
                ELSE IF CacheHit(thaiFont)
                THEN [q1 EXCEPT !.fonts = <<FontsReturned(variant, thaiFont, thaiFontBold)>>,
                                !.pc = "layout"]
                ELSE [q1 EXCEPT !.net = <<Get("primary")>>, !.pc = "font_regular"]]
    /\ UNCHANGED <<variant, thaiFont, thaiFontBold, now, lay>>

\* the primary download of the regular font settles
RegularDone(r, ok) ==
    /\ req[r].pc = "font_regular"
    /\ LET q == [req[r] EXCEPT !.net = Settled(@, ok)]
       IN  IF ok
           THEN /\ thaiFont' = "primary"
                /\ req' = [req EXCEPT ![r] =
                       IF CachesBold(variant)
                       THEN [q EXCEPT !.net = Append(@, Get("bold")), !.pc = "font_bold"]
                       ELSE [q EXCEPT !.fonts = <<FontsReturned(variant, "primary",
                                                                thaiFontBold)>>,
                                      !.pc = "layout"]]
           ELSE /\ thaiFont' = thaiFont
                /\ req' = [req EXCEPT ![r] =
                       [q EXCEPT !.net = Append(@, Get("fallback")),
                                 !.pc = "font_fallback"]]
    /\ UNCHANGED <<variant, thaiFontBold, now, lay>>

\* the bold download settles; the function returns what the module-level
\* variables hold at that moment
BoldDone(r, ok) ==
    /\ req[r].pc = "font_bold"
    /\ thaiFontBold' = BoldAfterDownload(ok, thaiFont)
    /\ req' = [req EXCEPT ![r] =
           [@ EXCEPT !.net = Settled(@, ok),
                     !.fonts = <<FontsReturned(variant, thaiFont, thaiFontBold')>>,
                     !.pc = "layout"]]
    /\ UNCHANGED <<variant, thaiFont, now, lay>>

\* a font acquisition that went on to lay out with no font at all
FontFailureIgnored(v, q) ==
    [q EXCEPT !.fonts = <<FontsReturned(v, "none", "none")>>, !.pc = "layout"]

\* catch (fallbackError) { throw new Error('Cannot download Thai font') }:
\* downloadThaiFont throws, the promise of generateJobApplicationPDF rejects
\* before new PDFDocument, and the handler's catch answers 500
FontFailure(v, q) == Respond(q, Response500(v))

\* the fallback download settles
FallbackDone(r, ok) ==
    /\ req[r].pc = "font_fallback"
    /\ LET q == [req[r] EXCEPT !.net = Settled(@, ok)]
       IN  IF ok
           THEN /\ thaiFont' = "fallback"
                /\ thaiFontBold' = BoldAfterFallback(variant, thaiFontBold)
                /\ req' = [req EXCEPT ![r] =
                       [q EXCEPT !.fonts = <<FontsReturned(variant, thaiFont',
                                                           thaiFontBold')>>,
                                 !.pc = "layout"]]
           ELSE /\ UNCHANGED <<thaiFont, thaiFontBold>>
                /\ req' = [req EXCEPT ![r] = FontFailure(variant, q)]
    /\ UNCHANGED <<variant, now, lay>>

\* the layout, from new PDFDocument to doc.end(), with what the PDF library
\* measures and decodes during it
Render(r, env) ==
    /\ req[r].pc = "layout"
    /\ req' = [req EXCEPT ![r] =
           [@ EXCEPT !.doc = <<Layout(variant, req[r].app[1], TRUE, env)>>,
                     !.pc = "pdf_end"]]
    /\ UNCHANGED <<variant, thaiFont, thaiFontBold, now, lay>>

\* an executor without its catch: the exception is lost and the promise of
\* generateJobApplicationPDF stays pending
RenderHangs(r) ==
    /\ req[r].pc = "layout"
    /\ req' = [req EXCEPT ![r] = [@ EXCEPT !.doc = <<NewDocument>>, !.pc = "pending"]]
    /\ UNCHANGED <<variant, thaiFont, thaiFontBold, now, lay>>

\* an exception during layout (the PDF library rejecting a font buffer, for
\* one): the catch of the promise executor rejects, the handler answers 500
RenderThrows(r) ==
    /\ req[r].pc = "layout"
    /\ req' = [req EXCEPT ![r] =
           Respond([@ EXCEPT !.doc = <<NewDocument>>], Response500(variant))]
    /\ UNCHANGED <<variant, thaiFont, thaiFontBold, now, lay>>

\* the document stream ends: 'end' resolves with the bytes and the handler
\* goes on to the attachments and the applicant's email; 'error' rejects
PdfEnd(r, ok) ==
    /\ req[r].pc = "pdf_end"
    /\ req' = [req EXCEPT ![r] =
           IF ok
           THEN [@ EXCEPT !.pdf = TRUE,
                          !.mails = Append(@, Mail("applicant", req[r].sub[1].body.email,
                                                   << >>)),
                          !.pc = "mail_applicant"]
           ELSE Respond(@, Response500(variant))]
    /\ UNCHANGED <<variant, thaiFont, thaiFontBold, now, lay>>

\* the applicant's sendEmail settles; the admin's is issued
MailApplicantDone(r, delivered) ==
    /\ req[r].pc = "mail_applicant"
    /\ LET q == [req[r] EXCEPT !.mails = Settle(@, delivered)]
       IN  req' = [req EXCEPT ![r] =
               IF sendEmail(delivered).threw
               THEN Respond(q, Response500(variant))
               ELSE [q EXCEPT !.mails = Append(@, Mail("admin", AdminEmailDefault,
                                                       Attachments(q.sub[1].files))),
                              !.pc = "mail_admin"]]
    /\ UNCHANGED <<variant, thaiFont, thaiFontBold, now, lay>>

\* a handler that keeps its application in a variable of the module: the
\* answer carries the id of whichever application was built first
MailAdminDoneShared(r, delivered) ==
    /\ req[r].pc = "mail_admin"
    /\ LET q == [req[r] EXCEPT !.mails = Settle(@, delivered)]
           first == IF req[1].app # << >> THEN req[1].app[1] ELSE q.app[1]
       IN  req' = [req EXCEPT ![r] = Respond(q, Response200(variant, first))]
    /\ UNCHANGED <<variant, thaiFont, thaiFontBold, now, lay>>

\* the admin's sendEmail settles; the handler answers 200
MailAdminDone(r, delivered) ==
    /\ req[r].pc = "mail_admin"
    /\ LET q == [req[r] EXCEPT !.mails = Settle(@, delivered)]
       IN  req' = [req EXCEPT ![r] =
               IF sendEmail(delivered).threw
               THEN Respond(q, Response500(variant))
               ELSE Respond(q, Response200(variant, q.app[1]))]
    /\ UNCHANGED <<variant, thaiFont, thaiFontBold, now, lay>>


-----------------------------------------------------------------------------
(* The requests the model submits *)

Fill(b) == IF b THEN X ELSE Empty

\* req.files as multer leaves it
Files(present, photo, resume) ==
    [present |-> present, photo |-> present /\ photo, resume |-> present /\ resume]

FileSets == {Files(p, ph, rs) : p \in BOOLEAN, ph \in BOOLEAN, rs \in BOOLEAN}

Submission(body, files) == [body |-> body, files |-> files]

\* d1 d2 ... dn
Digits(n) == [i \in 1..n |-> 48 + (i % 10)]

\* the digits written the way the card prints them: 1-2345-67890-12-3
RECURSIVE Grouped(_, _)
Grouped(n, i) ==
    IF i > n THEN << >>
    ELSE <<48 + (i % 10)>> \o (IF i \in {1, 5, 10, 12} THEN <<45>> ELSE << >>)
                           \o Grouped(n, i + 1)

IdCards ==
    {Digits(n) : n \in 0..MaxDigits}
        \cup {Grouped(n, 1) : n \in 1..MaxDigits}
        \cup {<<45>>, <<32>> \o Digits(13), Digits(12) \o X}

Emails ==
    { <<97, 64, 98, 46, 99>>,                   \* a@b.c
      <<97, 46, 98, 64, 99, 46, 100, 46, 101>>, \* a.b@c.d.e
      <<97, 98, 46, 99>>,                       \* ab.c
      <<97, 64, 98, 99>>,                       \* a@bc
      <<97, 32, 64, 98, 46, 99>>,               \* a @b.c
      <<97, 64, 98, 64, 99, 46, 100>>,          \* a@b@c.d
      <<64, 98, 46, 99>>,                       \* @b.c
      <<97, 64, 98, 46>>,                       \* a@b.
      <<97, 64, 46, 99>> }                      \* a@.c

\* the body with one field left out
Blank(body, f) == IF f = "none" THEN body ELSE [body EXCEPT ![f] = Empty]

\* the three work slots, each with or without a company and with or without
\* its other fields; slot n carries text of its own
WorkBodies ==
    {[BaseBody EXCEPT
        !.work1_company = IF c[1] THEN <<97>> ELSE Empty,
        !.work1_position = IF d[1] THEN <<112, 49>> ELSE Empty,
        !.work1_start = IF d[1] THEN <<115, 49>> ELSE Empty,
        !.work1_end = IF d[1] THEN <<101, 49>> ELSE Empty,
        !.work1_reason = IF d[1] THEN <<114, 49>> ELSE Empty,
        !.work2_company = IF c[2] THEN <<98>> ELSE Empty,
        !.work2_position = IF d[2] THEN <<112, 50>> ELSE Empty,
        !.work2_start = IF d[2] THEN <<115, 50>> ELSE Empty,
        !.work2_end = IF d[2] THEN <<101, 50>> ELSE Empty,
        !.work2_reason = IF d[2] THEN <<114, 50>> ELSE Empty,
        !.work3_company = IF c[3] THEN <<99>> ELSE Empty,
        !.work3_position = IF d[3] THEN <<112, 51>> ELSE Empty,
        !.work3_start = IF d[3] THEN <<115, 51>> ELSE Empty,
        !.work3_end = IF d[3] THEN <<101, 51>> ELSE Empty,
        !.work3_reason = IF d[3] THEN <<114, 51>> ELSE Empty] :
        c \in [1..3 -> BOOLEAN], d \in [1..3 -> BOOLEAN]}

IntakeBodies ==
    {Blank([BaseBody EXCEPT !.id_card = i, !.email = e], f) :
        i \in IdCards, e \in Emails, f \in RequiredFields \cup {"none"}}
      \cup WorkBodies

IntakeSubmissions == {Submission(b, fs) : b \in IntakeBodies, fs \in FileSets}

\* what the optional parts of a form hold
Forms ==
    [optional : BOOLEAN, schools : 0..4, detail : BOOLEAN, works : 0..3,
     reason : BOOLEAN, disease : {Empty, NoDisease, X}, extras : BOOLEAN,
     motivation : BOOLEAN]

FormBody(f) ==
    [BaseBody EXCEPT
        !.fullname_en = Fill(f.optional),
        !.address = Fill(f.optional),
        !.subdistrict = Fill(f.optional),
        !.district = Fill(f.optional),
        !.province = Fill(f.optional),
        !.zipcode = Fill(f.optional),
        !.edu_high_school = Fill(f.schools >= 1),
        !.edu_high_major = Fill(f.schools >= 1 /\ f.detail),
        !.edu_high_year = Fill(f.schools >= 1 /\ f.detail),
        !.edu_vocational = Fill(f.schools >= 2),
        !.edu_vocational_major = Fill(f.schools >= 2 /\ f.detail),
        !.edu_vocational_year = Fill(f.schools >= 2 /\ f.detail),
        !.edu_bachelor = Fill(f.schools >= 3),
        !.edu_bachelor_major = Fill(f.schools >= 3 /\ f.detail),
        !.edu_bachelor_year = Fill(f.schools >= 3 /\ f.detail),
        !.edu_other = Fill(f.schools >= 4),
        !.edu_other_major = Fill(f.schools >= 4 /\ f.detail),
        !.edu_other_year = Fill(f.schools >= 4 /\ f.detail),
        !.work1_company = Fill(f.works >= 1),
        !.work1_position = Fill(f.works >= 1 /\ f.detail),
        !.work1_start = Fill(f.works >= 1 /\ f.detail),
        !.work1_end = Fill(f.works >= 1 /\ f.detail),
        !.work1_reason = Fill(f.works >= 1 /\ f.reason),
        !.work2_company = Fill(f.works >= 2),
        !.work2_position = Fill(f.works >= 2 /\ f.detail),
        !.work2_start = Fill(f.works >= 2 /\ f.detail),
        !.work2_end = Fill(f.works >= 2 /\ f.detail),
        !.work2_reason = Fill(f.works >= 2 /\ f.reason),
        !.work3_company = Fill(f.works >= 3),
        !.work3_position = Fill(f.works >= 3 /\ f.detail),
        !.work3_start = Fill(f.works >= 3 /\ f.detail),
        !.work3_end = Fill(f.works >= 3 /\ f.detail),
        !.work3_reason = Fill(f.works >= 3 /\ f.reason),
        !.has_disease = f.disease,
        !.disease_detail = Fill(f.disease = X /\ f.detail),
        !.has_criminal_record = Fill(f.extras),
        !.criminal_detail = Fill(f.extras /\ f.detail),
        !.special_skills = Fill(f.extras),
        !.expected_salary = Fill(f.extras),
        !.start_date = Fill(f.extras),
        !.motivation = Fill(f.motivation)]

\* the shortest and the longest form
BareForm ==
    [optional |-> FALSE, schools |-> 0, detail |-> FALSE, works |-> 0,
     reason |-> FALSE, disease |-> Empty, extras |-> FALSE, motivation |-> FALSE]
FullForm ==
    [optional |-> TRUE, schools |-> 4, detail |-> TRUE, works |-> 3,
     reason |-> TRUE, disease |-> X, extras |-> TRUE, motivation |-> TRUE]

\* the submissions of the concurrent specification: an accepted form with a
\* resume, and the same form without its photo
Submissions ==
    { Submission(FormBody(BareForm), Files(TRUE, TRUE, TRUE)),
      Submission(FormBody(BareForm), Files(TRUE, FALSE, TRUE)) }

\* what the PDF library may measure and decode during one render
LayoutEnvs(v) ==
    IF EmbedsPhoto(v)
    THEN {UniformEnv(d, h) : d \in BOOLEAN, h \in TextHeights}
    ELSE {PlainEnv}

\* the same with one measured height, for the concurrent specification
HandlerEnvs(v) ==
    IF EmbedsPhoto(v) THEN {UniformEnv(d, TextLine) : d \in BOOLEAN} ELSE {PlainEnv}

-----------------------------------------------------------------------------
(* Specifications *)

\* every step of the handler after the request was received
Continue(r) ==
    \/ \E ok \in BOOLEAN : RegularDone(r, ok)
    \/ \E ok \in BOOLEAN : BoldDone(r, ok)
    \/ \E ok \in BOOLEAN : FallbackDone(r, ok)
    \/ \E env \in HandlerEnvs(variant) : Render(r, env)
    \/ RenderThrows(r)
    \/ \E ok \in BOOLEAN : PdfEnd(r, ok)
    \/ \E delivered \in BOOLEAN : MailApplicantDone(r, delivered)
    \/ \E delivered \in BOOLEAN : MailAdminDone(r, delivered)

\* MaxReq requests in flight in one process
Next ==
    \/ Tick
    \/ \E r \in Requests : req[r].pc = "idle" /\ \E sub \in Submissions : Receive(r, sub)
    \/ \E r \in Requests : Continue(r)

Spec == Init /\ [][Next]_vars

\* one request at a time, over every combination of the validated inputs
NextIntake ==
    \/ Tick
    \/ req[1].pc = "idle" /\ \E sub \in IntakeSubmissions : Receive(1, sub)
    \/ Continue(1)

SpecIntake == Init /\ [][NextIntake]_vars

\* One request through the whole app: app.use(cors()) ends every OPTIONS
\* request with 204; express.json() hands a body it cannot parse to the error
\* handler (500 'Something went wrong!'); app.get routes also serve HEAD;
\* upload.fields hands a file under any other field name to the error
\* handler; the handler of POST /api/job-application never calls next();
\* whatever is left reaches the last app.use and gets 404.
Dispatch(r, h) ==
    /\ req[r].pc = "idle"
    /\ IF /\ h.method = "POST"
          /\ h.path = "/api/job-application"
          /\ h.parses
          /\ h.accepted
       THEN \E sub \in Submissions : Receive(r, sub)
       ELSE /\ req' = [req EXCEPT ![r] =
                    Respond([@ EXCEPT !.sub = <<h>>],
                        CASE h.method = "OPTIONS" ->
                                Response(204, << >>, << >>, << >>)
                          [] h.method # "OPTIONS" /\ ~h.parses ->
                                Response(500, FALSE,
                                    <<83, 111, 109, 101, 116, 104, 105, 110, 103, 32,
                                      119, 101, 110, 116, 32, 119, 114, 111, 110, 103,
                                      33>>, << >>)
                          [] h.parses /\ h.method \in {"GET", "HEAD"}
                                /\ h.path = "/api/health" ->
                                Response(200, << >>,
                                    <<74, 111, 98, 32, 65, 112, 112, 108, 105, 99, 97,
                                      116, 105, 111, 110, 32, 65, 80, 73, 32, 105, 115,
                                      32, 114, 117, 110, 110, 105, 110, 103, 32, 111,
                                      110, 32, 86, 101, 114, 99, 101, 108>>, << >>)
                          [] h.parses /\ h.method \in {"GET", "HEAD"} /\ h.path = "/" ->
                                Response(200, << >>,
                                    <<74, 111, 98, 32, 65, 112, 112, 108, 105, 99, 97,
                                      116, 105, 111, 110, 32, 65, 80, 73>>, << >>)
                          [] h.parses /\ h.method = "POST"
                                /\ h.path = "/api/job-application" ->
                                Response(500, FALSE,
                                    <<83, 111, 109, 101, 116, 104, 105, 110, 103, 32,
                                      119, 101, 110, 116, 32, 119, 114, 111, 110, 103,
                                      33>>, << >>)
                          [] OTHER ->
                                Response(404, FALSE,
                                    <<69, 110, 100, 112, 111, 105, 110, 116, 32, 110,
                                      111, 116, 32, 102, 111, 117, 110, 100>>, << >>))]
            /\ UNCHANGED <<variant, thaiFont, thaiFontBold, now, lay>>

\* one request of any method and path, whether express.json() could parse
\* its body, and whether its files came under the field names upload.fields
\* accepts
NextRoutes ==
    \/ Tick
    \/ /\ req[1].pc = "idle"
       /\ \E h \in [method : {"GET", "HEAD", "POST", "PUT", "OPTIONS"},
                    path : {"/", "/api/health", "/api/job-application",
                            "/api/unknown"},
                    parses : BOOLEAN,
                    accepted : BOOLEAN] : Dispatch(1, h)
    \/ Continue(1)

SpecRoutes == Init /\ [][NextRoutes]_vars

\* the same, with every external call (font download, PDF stream end,
\* sendMail) completing or failing in the end and its continuation run: a
\* request in the handler that can take a step takes one in the end
\* (RenderThrows is a step of Continue; naming it first keeps the test of
\* whether a step is possible from running a layout)
SpecRoutesFair == SpecRoutes /\ WF_vars(RenderThrows(1) \/ Continue(1))

\* generateJobApplicationPDF is called with an application the handler built
StartRender(f, env) ==
    /\ lay.pc = "idle"
    /\ lay' = [lay EXCEPT !.pc = "layout",
                          !.input = <<[app |-> BuildApplication(FormBody(f), now),
                                       env |-> env]>>]
    /\ UNCHANGED <<variant, thaiFont, thaiFontBold, now, req>>

\* the layout runs from new PDFDocument to doc.end()
FinishRender ==
    /\ lay.pc = "layout"
    /\ lay' = [lay EXCEPT !.pc = "done",
                          !.doc = <<Layout(variant, lay.input[1].app, TRUE,
                                           lay.input[1].env)>>]
    /\ UNCHANGED <<variant, thaiFont, thaiFontBold, now, req>>

NextLayout ==
    \/ lay.pc = "idle" /\ \E f \in Forms : \E env \in LayoutEnvs(variant) : StartRender(f, env)
    \/ FinishRender

SpecLayout == Init /\ [][NextLayout]_vars

-----------------------------------------------------------------------------
(* Properties of the intake: validation, responses, font acquisition       *)

\* the number of digits in s, counted by position
DigitCount(s) == Cardinality({i \in 1..Len(s) : s[i] \in 48..57})

\* the position of the k-th digit of s
DigitPosition(s, k) ==
    CHOOSE i \in 1..Len(s) :
        s[i] \in 48..57 /\ Cardinality({j \in 1..i : s[j] \in 48..57}) = k

\* d is s with everything but its digits removed
DigitsOf(d, s) ==
    /\ Len(d) = DigitCount(s)
    /\ \A k \in 1..Len(d) : d[k] = s[DigitPosition(s, k)]

AtSigns(s) == {i \in 1..Len(s) : s[i] = 64}

\* local@domain.tld: no white space, one @ with text before it, and a dot
\* after it with text on both sides
EmailShaped(s) ==
    /\ \A i \in 1..Len(s) : s[i] \notin {9, 10, 11, 12, 13, 32, 160}
    /\ Cardinality(AtSigns(s)) = 1
    /\ \E a \in AtSigns(s) : a > 1 /\ \E d \in (a + 2)..(Len(s) - 1) : s[d] = 46

FieldMissing(sub) == \E f \in RequiredFields : sub.body[f] = << >>
NoPhoto(sub) == ~(sub.files.present /\ sub.files.photo)

\* the first check a submission fails, in the order of the handler
FirstFailure(sub) ==
    IF FieldMissing(sub) THEN "required"
    ELSE IF DigitCount(sub.body.id_card) # 13 THEN "id_card"
    ELSE IF ~EmailShaped(sub.body.email) THEN "email"
    ELSE IF NoPhoto(sub) THEN "photo"
    ELSE "ok"

Arrived(r) == req[r].sub # << >>

\* the request was answered once, with this status
Answered(r, status) ==
    /\ req[r].pc = "done"
    /\ Len(req[r].res) = 1
    /\ req[r].res[1].status = status

\* C1: a request that fails any validation check (required field missing,
\* id_card without exactly 13 digits, malformed email, photo missing) is
\* answered 400 with success false, and nothing was downloaded, rendered or
\* mailed for it.
C1_ValidationFailsFast ==
    \A r \in Requests :
        (/\ Arrived(r)
         /\ \/ FieldMissing(req[r].sub[1])
            \/ DigitCount(req[r].sub[1].body.id_card) # 13
            \/ ~EmailShaped(req[r].sub[1].body.email)
            \/ NoPhoto(req[r].sub[1]))
        => /\ Answered(r, 400)
           /\ req[r].res[1].success = FALSE
           /\ req[r].net = << >>
           /\ req[r].fonts = << >>
           /\ req[r].doc = << >>
           /\ ~req[r].pdf
           /\ req[r].mails = << >>

\* a request whose only fault is the missing photo has been answered 400
C1_Witness ==
    \E r \in Requests :
        /\ Arrived(r)
        /\ ~FieldMissing(req[r].sub[1])
        /\ DigitCount(req[r].sub[1].body.id_card) = 13
        /\ EmailShaped(req[r].sub[1].body.email)
        /\ req[r].sub[1].files.present
        /\ ~req[r].sub[1].files.photo
        /\ Answered(r, 400)
        /\ req[r].net = << >>

\* C2: once the PDF of a validated request exists, the only response the
\* request ever gets is 200 with success true and the application's id,
\* whatever the two sends return.
C2_MailFailureStill200 ==
    \A r \in Requests :
        req[r].pdf =>
            /\ Len(req[r].res) <= 1
            /\ \A i \in 1..Len(req[r].res) :
                /\ req[r].res[i].status = 200
                /\ req[r].res[i].success = TRUE
                /\ req[r].res[i].application_id = req[r].app[1].id
            /\ (req[r].pc = "done" => Len(req[r].res) = 1 /\ Len(req[r].mails) = 2)

\* both sends failed and the answer was 200
C2_Witness ==
    \E r \in Requests :
        /\ req[r].pdf
        /\ Len(req[r].mails) = 2
        /\ req[r].mails[1].result = "failed"
        /\ req[r].mails[2].result = "failed"
        /\ Answered(r, 200)
        /\ req[r].res[1].success = TRUE

\* both regular-font downloads of the request failed
FontAcquisitionFailed(r) ==
    /\ Len(req[r].net) = 2
    /\ req[r].net[1].url = "primary" /\ req[r].net[1].result = "failed"
    /\ req[r].net[2].url = "fallback" /\ req[r].net[2].result = "failed"

\* C3: when the primary and the fallback download of the regular font both
\* fail, no document is created, no bytes are returned, the request is
\* answered 500 with success false, and no mail is sent for it.
C3_FontFailureIs500 ==
    \A r \in Requests :
        FontAcquisitionFailed(r) =>
            /\ req[r].doc = << >>
            /\ ~req[r].pdf
            /\ Answered(r, 500)
            /\ req[r].res[1].success = FALSE
            /\ req[r].mails = << >>

\* a request whose two downloads failed has been answered 500
C3_Witness ==
    \E r \in Requests :
        /\ FontAcquisitionFailed(r)
        /\ Answered(r, 500)
        /\ req[r].doc = << >>
        /\ thaiFont = "none"

\* C4: every call of downloadThaiFont that returns, in an iteration caching
\* two fonts, returns a regular and a bold font that are both non-null,
\* under every interleaving of the requests.
C4_BothFontsReturned ==
    \A r \in Requests :
        (CachesBold(variant) /\ req[r].fonts # << >>) =>
            /\ req[r].fonts[1].regular # "none"
            /\ req[r].fonts[1].bold # "none"

\* C5: two accepted submissions never carry the same application id.
C5_IdsDiffer ==
    \A r1 \in Requests : \A r2 \in Requests :
        (/\ r1 # r2
         /\ Answered(r1, 200)
         /\ Answered(r2, 200))
        => req[r1].res[1].application_id # req[r2].res[1].application_id

\* C6: with the required fields present, the request is turned away with the
\* id_card message exactly when id_card does not hold exactly 13 digits; and
\* the id_card kept in an application is the typed one reduced to its digits.
C6_IdCardThirteenDigits ==
    \A r \in Requests :
        (Arrived(r) /\ ~FieldMissing(req[r].sub[1])) =>
            /\ (DigitCount(req[r].sub[1].body.id_card) # 13)
                    <=> (/\ Answered(r, 400)
                         /\ req[r].res[1].message = ValidationMessage(variant, "id_card"))
            /\ (DigitCount(req[r].sub[1].body.id_card) # 13) => req[r].app = << >>
            /\ req[r].app # << >> =>
                    /\ Len(req[r].app[1].personal_info.id_card) = 13
                    /\ DigitsOf(req[r].app[1].personal_info.id_card,
                                req[r].sub[1].body.id_card)

\* 1-2345-67890-12-3 was accepted and is kept as 1234567890123
C6_Witness ==
    \E r \in Requests :
        /\ Arrived(r)
        /\ req[r].sub[1].body.id_card =
                <<49, 45, 50, 51, 52, 53, 45, 54, 55, 56, 57, 48, 45, 49, 50, 45, 51>>
        /\ req[r].app # << >>
        /\ req[r].app[1].personal_info.id_card =
                <<49, 50, 51, 52, 53, 54, 55, 56, 57, 48, 49, 50, 51>>

Checks == {"required", "id_card", "email", "photo"}

\* C7: the message of a 400 response is the message of the check that
\* failed and of no other check of the same iteration.
C7_MessagesDistinct ==
    \A r \in Requests :
        (Arrived(r) /\ Answered(r, 400)) =>
            \A k \in Checks :
                (req[r].res[1].message = ValidationMessage(variant, k))
                    <=> (k = FirstFailure(req[r].sub[1]))

\* a request turned away for its email alone, with the email message
C7_Witness ==
    \E r \in Requests :
        /\ Arrived(r)
        /\ FirstFailure(req[r].sub[1]) = "email"
        /\ ~NoPhoto(req[r].sub[1])
        /\ Answered(r, 400)
        /\ req[r].res[1].message = MsgEmail

-----------------------------------------------------------------------------
(* Properties of the layout *)

Rendered == lay.pc = "done"
Document == lay.doc[1]

OpsWhere(doc, secs, kinds) ==
    {i \in 1..Len(doc.ops) : doc.ops[i].sec \in secs /\ doc.ops[i].kind \in kinds}

\* C8: every page of a finished document carries the footer.
C8_FooterOnEveryPage ==
    Rendered =>
        \A p \in 1..Document.page :
            \E i \in OpsWhere(Document, {"footer"}, {"footer"}) :
                Document.ops[i].page = p

MajorSections == {{"personal"}, {"education"}, {"work"}, {"additional", "motivation"}}
BodyKinds == {"label", "value", "record", "text", "placeholder"}

\* C9: each of the four major sections of a finished document has its header
\* and, under it, either data or a placeholder line.
C9_SectionsPresent ==
    Rendered =>
        \A secs \in MajorSections :
            /\ OpsWhere(Document, secs, {"title"}) # {}
            /\ OpsWhere(Document, secs, BodyKinds) # {}

\* C10: a finished document holds no draw call made for an empty or absent
\* field value.
C10_EmptyFieldsDrawNothing ==
    Rendered => \A i \in 1..Len(Document.ops) : ~Document.ops[i].empty

\* C11: all the draw calls of one work-experience entry land on one page: no
\* doc.addPage() falls between the first and the last field of an entry.
C11_EntryOnOnePage ==
    Rendered =>
        \A i \in 1..Len(Document.ops) : \A j \in 1..Len(Document.ops) :
            (Document.ops[i].item > 0 /\ Document.ops[i].item = Document.ops[j].item)
                => Document.ops[i].page = Document.ops[j].page

\* a document of two pages with one whole entry on each
C11_Witness ==
    /\ Rendered
    /\ Document.page = 2
    /\ \E i \in 1..Len(Document.ops) : \E j \in 1..Len(Document.ops) :
        /\ Document.ops[i].item > 0 /\ Document.ops[i].page = 1
        /\ Document.ops[j].item > 0 /\ Document.ops[j].page = 2

\* the y past which the work loop of the variant asks for a new page
WorkLoopThreshold(v) == IF v = "index_1" THEN 700 ELSE Metrics(v).sectionBreak

\* C12: the page break is decided before a unit is placed, from the cursor
\* plus the unit's height: no draw call of a work-experience entry lands past
\* the threshold of the page it is on (in the variants whose loop paginates).
C12_BreakBeforePlacing ==
    (Rendered /\ variant \in {"part_000", "part_001", "index_1"}) =>
        \A i \in 1..Len(Document.ops) :
            Document.ops[i].item > 0 => Document.ops[i].y <= WorkLoopThreshold(variant)

\* C13: a page-break test whose cursor is exactly on its limit, or above it
\* on the page, asks for no new page; one whose cursor is past the limit asks
\* for exactly one.
C13_StrictComparison ==
    Rendered =>
        \A k \in 1..Len(Document.checks) :
            /\ Document.checks[k].at <= Document.checks[k].limit
                    => Document.checks[k].to = Document.checks[k].from
            /\ Document.checks[k].at > Document.checks[k].limit
                    => Document.checks[k].to = Document.checks[k].from + 1

\* a test read a cursor exactly on its limit and the page stayed
C13_Witness ==
    /\ Rendered
    /\ \E k \in 1..Len(Document.checks) :
        /\ Document.checks[k].at = Document.checks[k].limit
        /\ Document.checks[k].to = Document.checks[k].from

RenderInput == lay.input[1].app

\* C14: the document of an application with exactly three work-experience
\* entries has more than one page, in every variant.
C14_ThreeEntriesSpanPages ==
    (Rendered /\ Len(RenderInput.work_experience) = 3) => Document.page > 1

-----------------------------------------------------------------------------
(* Properties of the application object and of the handler after intake    *)

\* the slots of the body whose company is filled in
Populated(body) == {n \in 1..3 : WorkSlot(body, n).company # << >>}

\* the k-th populated slot, counting in slot order
KthPopulated(body, k) ==
    CHOOSE n \in Populated(body) :
        Cardinality({m \in Populated(body) : m <= n}) = k

\* C15: work_experience holds exactly the slots whose company is non-empty,
\* in slot order, so between 0 and 3 entries; a slot without a company is
\* dropped whatever its other fields hold.
C15_WorkExperienceCompacted ==
    \A r \in Requests :
        req[r].app # << >> =>
            /\ Len(req[r].app[1].work_experience) \in 0..3
            /\ Len(req[r].app[1].work_experience)
                    = Cardinality(Populated(req[r].sub[1].body))
            /\ \A k \in 1..Len(req[r].app[1].work_experience) :
                    req[r].app[1].work_experience[k]
                        = WorkSlot(req[r].sub[1].body,
                                   KthPopulated(req[r].sub[1].body, k))

\* slot 1 has a position but no company, slot 2 is empty, slot 3 is complete:
\* the application keeps the third slot alone
C15_Witness ==
    \E r \in Requests :
        /\ req[r].app # << >>
        /\ req[r].sub[1].body.work1_company = << >>
        /\ req[r].sub[1].body.work1_position # << >>
        /\ req[r].sub[1].body.work2_company = << >>
        /\ req[r].sub[1].body.work3_company = <<99>>
        /\ Len(req[r].app[1].work_experience) = 1
        /\ req[r].app[1].work_experience[1].company = <<99>>
        /\ req[r].app[1].work_experience[1].position = <<112, 51>>

\* some call of downloadThaiFont has returned its fonts
SomeCallReturned == \E r \in Requests : req[r].fonts # << >>

\* request r enters the handler in this step and passes validation
Accepted(r) == req[r].pc = "idle" /\ req'[r].app # << >>

\* C16: a cached font is never set back to null, and a call of
\* downloadThaiFont that starts after another call has returned gets what
\* the cache holds and issues no download.
C16_CacheNeverInvalidated ==
    [][/\ thaiFont # "none" => thaiFont' # "none"
       /\ thaiFontBold # "none" => thaiFontBold' # "none"
       /\ \A r \in Requests :
            (DownloadsFont(variant) /\ SomeCallReturned /\ Accepted(r)) =>
                /\ req'[r].net = << >>
                /\ req'[r].fonts # << >>
                /\ req'[r].fonts[1].regular = thaiFont
                /\ req'[r].fonts[1].regular # "none"
                /\ CachesBold(variant) => req'[r].fonts[1].bold = thaiFontBold]_vars

\* the first request downloaded both fonts; the second, arriving after that,
\* was served from the cache without a download
C16_Witness ==
    /\ variant = "index_1"
    /\ Len(req[1].net) = 2
    /\ req[1].fonts # << >>
    /\ req[2].net = << >>
    /\ req[2].fonts = <<[regular |-> "primary", bold |-> "bold"]>>

\* a document that was drawn on but holds no image: doc.image threw
PhotoSkipped(doc) == doc.ops # << >> /\ OpsWhere(doc, {"photo"}, {"image"}) = {}

\* C17: in the variants that embed the photo, when doc.image throws the
\* render still reaches doc.end() with every later section laid out; and when
\* the PDF is produced the admin mail carries the photo and the answer is 200.
C17_PhotoErrorCaught ==
    \A r \in Requests :
        (/\ EmbedsPhoto(variant)
         /\ req[r].doc # << >>
         /\ PhotoSkipped(req[r].doc[1])) =>
            /\ req[r].pc \in {"pdf_end", "mail_applicant", "mail_admin", "done"}
            /\ \A sec \in {"banner", "personal", "address", "education", "work",
                           "footer"} :
                    \E i \in 1..Len(req[r].doc[1].ops) : req[r].doc[1].ops[i].sec = sec
            /\ req[r].doc[1].ops[Len(req[r].doc[1].ops)].kind = "footer"
            /\ req[r].pdf =>
                    /\ \A i \in 1..Len(req[r].res) : req[r].res[i].status = 200
                    /\ Len(req[r].mails) = 2 =>
                            \E a \in 1..Len(req[r].mails[2].attachments) :
                                req[r].mails[2].attachments[a] = "photo"
                    /\ req[r].pc = "done" => Len(req[r].res) = 1 /\ Len(req[r].mails) = 2

\* the photo could not be drawn, yet the request was answered 200 and the
\* admin mail went out with the PDF and the photo
C17_Witness ==
    \E r \in Requests :
        /\ EmbedsPhoto(variant)
        /\ req[r].doc # << >>
        /\ PhotoSkipped(req[r].doc[1])
        /\ req[r].pdf
        /\ Answered(r, 200)
        /\ Len(req[r].mails) = 2
        /\ req[r].mails[2].result = "sent"
        /\ SubSeq(req[r].mails[2].attachments, 1, 2) = <<"pdf", "photo">>

\* C18: for a request whose PDF was generated, the sends are the applicant's
\* confirmation (to the submitted address, no attachment) and then, once that
\* one has settled either way, the administrator's notification with the PDF,
\* the photo and the resume if one was uploaded, in that order; the request
\* ends with exactly these two sends, and without a PDF nothing is sent.
C18_TwoMailsInOrder ==
    \A r \in Requests :
        /\ Len(req[r].mails) <= 2
        /\ req[r].mails # << >> => req[r].pdf
        /\ req[r].pdf => Len(req[r].mails) >= 1
        /\ Len(req[r].mails) >= 1 =>
                /\ req[r].mails[1].role = "applicant"
                /\ req[r].mails[1].to = req[r].sub[1].body.email
                /\ req[r].mails[1].attachments = << >>
        /\ Len(req[r].mails) = 1 => req[r].mails[1].result = "pending"
        /\ Len(req[r].mails) = 2 =>
                /\ req[r].mails[1].result \in {"sent", "failed"}
                /\ req[r].mails[2].role = "admin"
                /\ req[r].mails[2].to = AdminEmailDefault
                /\ req[r].mails[2].attachments =
                        IF req[r].sub[1].files.resume
                        THEN <<"pdf", "photo", "resume">>
                        ELSE <<"pdf", "photo">>
        /\ (req[r].pdf /\ req[r].pc = "done") => Len(req[r].mails) = 2

\* the applicant's send failed and the administrator's, with three
\* attachments, was attempted all the same
C18_Witness ==
    \E r \in Requests :
        /\ req[r].pc = "done"
        /\ Len(req[r].mails) = 2
        /\ req[r].mails[1].role = "applicant"
        /\ req[r].mails[1].result = "failed"
        /\ req[r].mails[2].role = "admin"
        /\ req[r].mails[2].result = "sent"
        /\ req[r].mails[2].attachments = <<"pdf", "photo", "resume">>

FontValues == {"none", "primary", "bold", "fallback"}

\* everything request r holds follows from its own submission, the clock and
\* the font cache
OwnInputsOnly(r) ==
    LET q == req[r]
        sub == q.sub[1]
    IN  IF FirstFailure(sub) # "ok"
        THEN q = [Idle EXCEPT
                    !.pc = "done",
                    !.sub = <<sub>>,
                    !.res = <<Response(400, FALSE,
                                       ValidationMessage(variant, FirstFailure(sub)),
                                       << >>)>>]
        ELSE /\ \E t \in 1..MaxClock : q.app = <<BuildApplication(sub.body, t)>>
             /\ \A i \in 1..Len(q.fonts) :
                    q.fonts[i].regular \in FontValues /\ q.fonts[i].bold \in FontValues
             /\ \A i \in 1..Len(q.mails) :
                    \/ /\ q.mails[i].role = "applicant"
                       /\ q.mails[i].to = sub.body.email
                       /\ q.mails[i].attachments = << >>
                    \/ /\ q.mails[i].role = "admin"
                       /\ q.mails[i].to = AdminEmailDefault
                       /\ q.mails[i].attachments =
                            <<"pdf", "photo">>
                                \o (IF sub.files.resume THEN <<"resume">> ELSE << >>)
             /\ \A i \in 1..Len(q.res) :
                    \/ q.res[i] = Response(200, TRUE, SuccessMessage(variant), q.app[1].id)
                    \/ q.res[i] = Response(500, FALSE, FailureMessage(variant), << >>)

\* the cursors and draw calls of r's document are those of a layout of r's
\* own application
OwnDocument(r) ==
    \/ req[r].doc = << >>
    \/ req[r].doc = <<NewDocument>>
    \/ \E env \in HandlerEnvs(variant) :
            req[r].doc = <<Layout(variant, req[r].app[1], TRUE, env)>>

Cursors == {"yPos", "leftY", "rightY"}

\* the draw calls placed at one cursor, in the order they were made
PlacedAt(doc, cur) == SelectSeq(doc.ops, LAMBDA o : o.cur = cur)

\* yPos = 50 in part_000 and part_001, rightY = 60 in index.js
TopOfPage(v) == IF v \in {"part_000", "part_001"} THEN 50 ELSE 60

\* C20: from one placed unit to the next a cursor never decreases within a
\* page; where it does decrease the unit is on the next page (the page index
\* grew by exactly one) and the cursor is at the fixed top value; and every
\* page-break test either leaves page and cursor alone or starts exactly one
\* page and sets the cursor to the fixed top value.
C20_CursorMonotone ==
    Rendered =>
        /\ \A cur \in Cursors :
                LET placed == PlacedAt(Document, cur)
                IN  \A k \in 1..(Len(placed) - 1) :
                        \/ /\ placed[k + 1].page = placed[k].page
                           /\ placed[k + 1].at >= placed[k].at
                        \/ /\ placed[k + 1].page = placed[k].page + 1
                           /\ placed[k + 1].at = TopOfPage(variant)
        /\ \A i \in 1..Len(Document.checks) :
                LET t == Document.checks[i]
                IN  \/ t.to = t.from /\ t.top = t.at
                    \/ t.to = t.from + 1 /\ t.top = TopOfPage(variant)

\* a rendering in which a cursor went back up: a unit on the next page, at
\* the top value, above the unit placed before it
C20_Witness ==
    /\ Rendered
    /\ \E cur \in Cursors :
            LET placed == PlacedAt(Document, cur)
            IN  \E k \in 1..(Len(placed) - 1) :
                    /\ placed[k + 1].page = placed[k].page + 1
                    /\ placed[k + 1].at < placed[k].at

-----------------------------------------------------------------------------
(* Properties of the routes and of the responses *)

\* what request r asked for: the handler records a submission only for
\* POST /api/job-application
AskedFor(r) ==
    IF "method" \in DOMAIN req[r].sub[1]
    THEN req[r].sub[1]
    ELSE [method |-> "POST", path |-> "/api/job-application",
          parses |-> TRUE, accepted |-> TRUE]

Registered ==
    { <<"GET", "/api/health">>, <<"GET", "/">>, <<"POST", "/api/job-application">> }

EndpointNotFound(response) ==
    /\ response.status = 404
    /\ response.success = FALSE
    /\ response.message = <<69, 110, 100, 112, 111, 105, 110, 116, 32, 110, 111, 116,
                            32, 102, 111, 117, 110, 100>>

\* C21: a request that matches none of GET /api/health, GET / and
\* POST /api/job-application is answered 404 'Endpoint not found', and a
\* request that matches one of the three never is.
C21_UnmatchedGets404 ==
    \A r \in Requests :
        (Arrived(r) /\ req[r].pc = "done") =>
            (EndpointNotFound(req[r].res[1])
                <=> <<AskedFor(r).method, AskedFor(r).path>> \notin Registered)

\* C22: provided every external call completes or fails in the end, every
\* request the handler received is answered, also after an exception during
\* layout.
C22_EveryPostAnswered ==
    \A r \in Requests : Arrived(r) ~> (req[r].pc = "done" /\ req[r].res # << >>)

\* a request answered 500 after an exception during layout
C22_Witness ==
    \E r \in Requests :
        /\ req[r].pc = "done"
        /\ req[r].app # << >>
        /\ req[r].doc = <<NewDocument>>
        /\ Answered(r, 500)

PostedApplication(r) ==
    /\ Arrived(r)
    /\ AskedFor(r).method = "POST"
    /\ AskedFor(r).path = "/api/job-application"

\* C23: a POST /api/job-application never has two responses, has exactly one
\* when it is over and gets one in the end; the status is 200, 400 or 500 and
\* success is true exactly with 200.
C23_ExactlyOneResponse ==
    /\ [](\A r \in Requests :
            PostedApplication(r) =>
                /\ Len(req[r].res) <= 1
                /\ (req[r].pc = "done") <=> (Len(req[r].res) = 1)
                /\ \A i \in 1..Len(req[r].res) :
                        /\ req[r].res[i].status \in {200, 400, 500}
                        /\ (req[r].res[i].success = TRUE)
                                <=> (req[r].res[i].status = 200))
    /\ \A r \in Requests : PostedApplication(r) ~> (Len(req[r].res) = 1)

\* an accepted application answered 200 once both mails have settled
C23_Witness ==
    \E r \in Requests :
        /\ PostedApplication(r)
        /\ req[r].pc = "done"
        /\ Len(req[r].mails) = 2
        /\ req[r].res = <<Response200(variant, req[r].app[1])>>

\* 'required' and 'id card' messages of the variant in use
RequiredMessages == {MsgRequiredLong, MsgRequiredShort}
IdCardMessages == {MsgIdCardLong, MsgIdCardShort}

\* C24: the checks run in the order required fields, national ID, email,
\* photo, and only the first one that fails is reported: a missing required
\* field gets the required-field message whatever else is wrong, and a
\* malformed national ID gets the national-ID message also when the email is
\* malformed or the photo is missing.
C24_FirstFailedCheckReported ==
    \A r \in Requests :
        (Arrived(r) /\ req[r].pc = "done") =>
            LET sub == req[r].sub[1]
                badId == DigitCount(sub.body.id_card) # 13
                badEmail == ~EmailShaped(sub.body.email)
            IN  /\ FieldMissing(sub) =>
                    /\ Answered(r, 400)
                    /\ req[r].res[1].message \in RequiredMessages
                /\ (~FieldMissing(sub) /\ badId) =>
                    /\ Answered(r, 400)
                    /\ req[r].res[1].message \in IdCardMessages
                /\ (~FieldMissing(sub) /\ ~badId /\ badEmail) =>
                    /\ Answered(r, 400)
                    /\ req[r].res[1].message = MsgEmail
                /\ (~FieldMissing(sub) /\ ~badId /\ ~badEmail /\ NoPhoto(sub)) =>
                    /\ Answered(r, 400)
                    /\ req[r].res[1].message
                            \notin RequiredMessages \cup IdCardMessages \cup {MsgEmail}

\* a request with a malformed national ID, a malformed email and no photo,
\* turned away with the national-ID message
C24_Witness ==
    \E r \in Requests :
        /\ Arrived(r)
        /\ ~FieldMissing(req[r].sub[1])
        /\ DigitCount(req[r].sub[1].body.id_card) # 13
        /\ ~EmailShaped(req[r].sub[1].body.email)
        /\ NoPhoto(req[r].sub[1])
        /\ Answered(r, 400)
        /\ req[r].res[1].message \in IdCardMessages

-----------------------------------------------------------------------------
(* Properties of downloadThaiFont, regular and bold *)

\* the downloads request r started have all settled
DownloadsSettled(r) ==
    /\ req[r].net # << >>
    /\ req[r].pc \notin {"font_regular", "font_bold", "font_fallback"}

Download(r, url, result) ==
    \E i \in 1..Len(req[r].net) :
        req[r].net[i].url = url /\ req[r].net[i].result = result

\* C25: in the variants that cache a regular and a bold font, a call of
\* downloadThaiFont fails exactly when the primary and the fallback download
\* of the regular font both fail; after a failed bold download, and after a
\* failed primary with a successful fallback, the call returns a bold equal to
\* its regular; a failing call writes nothing to the cache; and a call that
\* finds the cache empty starts with the primary download.
C25_FontAcquisition ==
    /\ [](\A r \in Requests :
            (CachesBold(variant) /\ DownloadsSettled(r)) =>
                /\ (req[r].fonts = << >>)
                        <=> (Download(r, "primary", "failed")
                                /\ Download(r, "fallback", "failed"))
                /\ Download(r, "bold", "failed") =>
                        /\ req[r].fonts # << >>
                        /\ req[r].fonts[1].bold = req[r].fonts[1].regular
                /\ (Download(r, "primary", "failed") /\ Download(r, "fallback", "ok")) =>
                        /\ req[r].fonts # << >>
                        /\ req[r].fonts[1].bold = req[r].fonts[1].regular)
    /\ [][\A r \in Requests :
            (CachesBold(variant)
                /\ req[r].pc = "font_fallback"
                /\ Download(r, "fallback", "failed")') =>
                    (thaiFont' = thaiFont /\ thaiFontBold' = thaiFontBold)]_vars
    /\ [][\A r \in Requests :
            (CachesBold(variant)
                /\ req[r].pc = "idle"
                /\ thaiFont = "none"
                /\ req'[r].app # << >>) =>
                    req'[r].net = <<Get("primary")>>]_vars

\* the first call failed on both downloads and left the cache empty; the
\* second call is downloading again
C25_Witness ==
    /\ CachesBold(variant)
    /\ FontAcquisitionFailed(1)
    /\ req[1].pc = "done"
    /\ thaiFont = "none"
    /\ req[2].pc = "font_regular"

\* one call whose bold download failed after its regular one succeeded
C25_BoldFailedWitness ==
    \E r \in Requests :
        /\ CachesBold(variant)
        /\ Download(r, "primary", "ok")
        /\ Download(r, "bold", "failed")
        /\ req[r].fonts # << >>

-----------------------------------------------------------------------------
(* Properties of the page geometry *)

\* the draw calls of the document other than the footer
ContentOps(doc) == {i \in 1..Len(doc.ops) : doc.ops[i].sec # "footer"}

\* C26: in part_000 nothing but the footer is drawn at or below the footer's
\* y-coordinate.
C26_ContentAboveFooter ==
    (Rendered /\ variant = "part_000") =>
        \A i \in ContentOps(Document) : Document.ops[i].y < Metrics(variant).footerY

\* the page-break tests of the document that compared with `limit`
ChecksAgainst(doc, limit) ==
    {k \in 1..Len(doc.checks) : doc.checks[k].limit = limit}

AdditionalTitles(doc) == OpsWhere(doc, {"additional"}, {"title"})

\* C28: in the first two-column variant the left cursor is at most 627 where
\* 'leftY < 650' is evaluated, so the guard passes for every application and
\* the Additional Info title is drawn, once, at that cursor.
C28_AdditionalTitleNeverSkipped ==
    (Rendered /\ variant = "index_1") =>
        /\ Cardinality(AdditionalTitles(Document)) = 1
        /\ \A i \in AdditionalTitles(Document) :
                /\ Document.ops[i].cur = "leftY"
                /\ Document.ops[i].at <= 627
                /\ \A j \in 1..(i - 1) :
                        Document.ops[j].cur = "leftY"
                            => Document.ops[j].at <= Document.ops[i].at

\* four schools: the guard is evaluated, and the title drawn, at 627
C28_Witness ==
    /\ Rendered
    /\ variant = "index_1"
    /\ \E i \in AdditionalTitles(Document) : Document.ops[i].at = 627

SingleColumn == {"part_000", "part_001"}

\* the page-break tests of the document that started a page
PageBreaks(doc) == {k \in 1..Len(doc.checks) : doc.checks[k].to = doc.checks[k].from + 1}

\* C29: a render of a single-column variant starts at most one page after
\* the first, so the document has at most two.
C29_AtMostOnePageBreak ==
    (Rendered /\ variant \in SingleColumn) =>
        /\ Cardinality(PageBreaks(Document)) <= 1
        /\ Document.page <= 2

\* a render of a single-column variant that did start a second page
C29_Witness ==
    /\ Rendered
    /\ variant \in SingleColumn
    /\ Cardinality(PageBreaks(Document)) = 1
    /\ Document.page = 2

\* the section headers and work records drawn on page p
HeadersAndRecords(doc, p) ==
    {i \in ContentOps(doc) :
        doc.ops[i].page = p /\ (doc.ops[i].kind = "title" \/ doc.ops[i].item > 0)}

\* C30: a single-column render leaves no page blank: every page started by
\* a page break carries a section header or a work record, and so does the
\* page a later break leaves behind.
C30_NoBlankPage ==
    (Rendered /\ variant \in SingleColumn) =>
        \A p \in 1..Document.page : HeadersAndRecords(Document, p) # {}

\* the break fired in the work loop after the last entry: every entry is on
\* the first page, and the only test after the break is the one of the
\* additional section, on the new page
C30_Witness ==
    /\ Rendered
    /\ variant \in SingleColumn
    /\ Len(RenderInput.work_experience) >= 1
    /\ Len(Document.checks) >= 2
    /\ (Len(Document.checks) - 1) \in PageBreaks(Document)
    /\ \A i \in 1..Len(Document.ops) :
            Document.ops[i].item > 0 => Document.ops[i].page = 1
    /\ HeadersAndRecords(Document, 2) # {}

====
